---- MODULE Spec2Model ----
(***************************************************************************)
(* Digital Library (src/main.py): the playback / viewing session of        *)
(* class DigitalLibrary, its timestamp store (timestamps.json) and the     *)
(* timer and deferred callbacks of the Tk event loop.                      *)
(*                                                                         *)
(* Times are milliseconds.  Zoom levels are kept in hundredths (1.25 is    *)
(* 125) so that they stay integers.  datetime.now().isoformat() is the     *)
(* string "now": the wall clock is not part of the state.                  *)
(***************************************************************************)
EXTENDS Integers, Sequences, FiniteSets, TLC

\* ------------------------------------------------------------------ bounds
\* Length of every audio/video file of the library, in engine ticks.
DurTicks == 4
\* Pages of the PDF file of the library.
PdfPages == 2
\* Deferred callbacks of one kind that may be queued at once.
MaxPending == 1
\* _restore_vlc_state calls that may wait inside one another's window.update().
MaxFrames == 1

\* --------------------------------------------------------- program constants
TRAILING_MARGIN == 2000
max_attempts == 30
PDF_ZOOM_STEPS == <<50, 75, 100, 125, 150, 175, 200, 250, 300, 400>>
SUPPORTED_VIDEO_EXT == {".mp4", ".mkv", ".avi", ".mov", ".wmv"}
SUPPORTED_AUDIO_EXT == {".mp3", ".wav", ".ogg", ".flac", ".aac"}
SUPPORTED_PDF_EXT == {".pdf"}

\* One engine tick: the engine's clock advances in steps of half the margin.
Tick == TRAILING_MARGIN \div 2
MediaLength == DurTicks * Tick
None == "None"

\* The media files a library directory may hold (the cards of load_library).
\* e.pdf is a PDF without pages.
Resources == {"a.mp4", "c.mp3", "b.pdf", "e.pdf", "D.MP4"}

\* file_path.suffix.lower()
Suffix(path) ==
    CASE path = "a.mp4" -> ".mp4"
      [] path = "c.mp3" -> ".mp3"
      [] path = "b.pdf" -> ".pdf"
      [] path = "e.pdf" -> ".pdf"
      [] path = "D.MP4" -> ".mp4"
      [] OTHER -> ""

\* str(path): the key of a resource in the store; path.name: its file name.
MediaKey(path) == path
FileName(path) == path

\* ------------------------------------------------------------------ text
\* A text whose characters matter is the sequence of its characters.
\* path.name of the media files, character by character.
NameChars(path) ==
    CASE path = "a.mp4" -> <<"a", ".", "m", "p", "4">>
      [] path = "c.mp3" -> <<"c", ".", "m", "p", "3">>
      [] path = "b.pdf" -> <<"b", ".", "p", "d", "f">>
      [] path = "e.pdf" -> <<"e", ".", "p", "d", "f">>
      [] path = "D.MP4" -> <<"D", ".", "M", "P", "4">>

\* The characters of this model in code point order.
CodePoints ==
    <<" ", ".", "3", "4", "A", "B", "D", "M", "P", "a", "b", "c", "d", "e", "f", "m", "p", "x">>
Ord(c) == CHOOSE i \in 1..Len(CodePoints) : CodePoints[i] = c

\* str.lower()
LowerChar(c) ==
    CASE c = "A" -> "a"
      [] c = "B" -> "b"
      [] c = "D" -> "d"
      [] c = "M" -> "m"
      [] c = "P" -> "p"
      [] OTHER -> c
Lower(text) == [i \in 1..Len(text) |-> LowerChar(text[i])]

\* str.strip()
RECURSIVE Strip(_)
Strip(text) ==
    IF text = <<>> THEN text
    ELSE IF Head(text) = " " THEN Strip(Tail(text))
    ELSE IF text[Len(text)] = " " THEN Strip(SubSeq(text, 1, Len(text) - 1))
    ELSE text

\* needle in hay
Contains(needle, hay) ==
    \E i \in 0..(Len(hay) - Len(needle)) : SubSeq(hay, i + 1, i + Len(needle)) = needle

\* u < v for two str
RECURSIVE TextLess(_, _)
TextLess(u, v) ==
    IF v = <<>> THEN FALSE
    ELSE IF u = <<>> THEN TRUE
    ELSE IF Head(u) = Head(v) THEN TextLess(Tail(u), Tail(v))
    ELSE Ord(Head(u)) < Ord(Head(v))

\* sorted(files, key=lambda x: x.name.lower()) of files with different keys.
RECURSIVE SortedByName(_)
SortedByName(S) ==
    IF S = {} THEN <<>>
    ELSE LET first == CHOOSE x \in S :
                        \A y \in S \ {x} : TextLess(Lower(NameChars(x)), Lower(NameChars(y)))
         IN <<first>> \o SortedByName(S \ {first})

\* ------------------------------------------------------------ dictionaries
\* d[k] = v on a Python dict.
DictSet(d, k, v) == [x \in DOMAIN d \cup {k} |-> IF x = k THEN v ELSE d[x]]
EmptyDict == [x \in {} |-> 0]

\* ------------------------------------------------------------------- JSON
\* A file is absent, or holds a JSON text: the members written so far, and
\* whether the text was written to its end (a text cut short does not parse).
\* top is the kind of the text's top-level value ("object" for what json.dump
\* writes of a dict).
AbsentFile == [exists |-> FALSE, complete |-> FALSE, top |-> "none", members |-> <<>>]

KeyOrder == <<"a.mp4", "c.mp3", "b.pdf", "e.pdf", "D.MP4">>
FieldOrder == <<"position", "duration", "last_played", "last_opened", "filename",
                "finished", "pdf_page", "pdf_zoom">>

\* A faulty encoder, to compare with: it writes a zoom level as a whole number.
JsonEncodeTruncated(field, v) ==
    CASE field \in {"position", "duration", "pdf_page"} -> [kind |-> "int", n |-> v]
      [] field = "pdf_zoom" -> [kind |-> "int", n |-> (v \div 100) * 100]
      [] field = "finished" -> [kind |-> IF v THEN "true" ELSE "false"]
      [] OTHER -> [kind |-> "string", s |-> v]

\* json.dump of one value: an int is written without a fraction, a float with
\* one, a bool as true/false, a str as a string.
JsonEncode(field, v) ==
    CASE field \in {"position", "duration", "pdf_page"} -> [kind |-> "int", n |-> v]
      [] field = "pdf_zoom" -> [kind |-> "real", n |-> v]
      [] field = "finished" -> [kind |-> IF v THEN "true" ELSE "false"]
      [] OTHER -> [kind |-> "string", s |-> v]

\* json.load of one value.
JsonDecode(tok) ==
    CASE tok.kind \in {"int", "real"} -> tok.n
      [] tok.kind = "true" -> TRUE
      [] tok.kind = "false" -> FALSE
      [] OTHER -> tok.s

RECURSIVE DumpFields(_, _)
DumpFields(rec, i) ==
    IF i > Len(FieldOrder) THEN <<>>
    ELSE LET f == FieldOrder[i] IN
         (IF f \in DOMAIN rec THEN <<[name |-> f, tok |-> JsonEncode(f, rec[f])]>> ELSE <<>>)
            \o DumpFields(rec, i + 1)

RECURSIVE DumpMembers(_, _)
DumpMembers(d, i) ==
    IF i > Len(KeyOrder) THEN <<>>
    ELSE LET k == KeyOrder[i] IN
         (IF k \in DOMAIN d THEN <<[key |-> k, value |-> DumpFields(d[k], 1)]>> ELSE <<>>)
            \o DumpMembers(d, i + 1)

\* json.dump(timestamps_data, f): the whole text.
JsonDump(d) ==
    [exists |-> TRUE, complete |-> TRUE, top |-> "object", members |-> DumpMembers(d, 1)]

RECURSIVE LoadFields(_)
LoadFields(fs) ==
    IF fs = <<>> THEN EmptyDict
    ELSE DictSet(LoadFields(Tail(fs)), Head(fs).name, JsonDecode(Head(fs).tok))

RECURSIVE LoadMembers(_)
LoadMembers(ms) ==
    IF ms = <<>> THEN EmptyDict
    ELSE DictSet(LoadMembers(Tail(ms)), Head(ms).key, LoadFields(Head(ms).value))

\* What load_timestamps returns and reports.  A missing file: {}.  A text that
\* does not parse: json.load raises, an error is shown, {}.  A text whose value
\* has no len() (a number, true, false, null): the logging line raises, an
\* error is shown, {}.  Any other text: the parsed value as it is, a dict for
\* an object, a list for an array, a str for a string.
load_timestamps_result(file) ==
    IF ~file.exists
    THEN [type |-> "dict", value |-> EmptyDict, error |-> None]
    ELSE IF ~file.complete
    THEN [type |-> "dict", value |-> EmptyDict, error |-> "Timestamp Load Error"]
    ELSE CASE file.top = "object" ->
                [type |-> "dict", value |-> LoadMembers(file.members), error |-> None]
           [] file.top = "array" ->
                [type |-> "list", value |-> file.members, error |-> None]
           [] file.top = "string" ->
                [type |-> "str", value |-> file.members, error |-> None]
           [] OTHER ->
                [type |-> "dict", value |-> EmptyDict, error |-> "Timestamp Load Error"]

\* load_timestamps: the value it returns.
load_timestamps(file) == load_timestamps_result(file).value


\* --------------------------------------------------------------- the store
\* A faulty choice, to compare with: writing the store file in place.
temp_file_same == "store"

\* self.timestamps_file and its temporary twin (.json.tmp) in the library.
store_file == "store"
temp_file == "tmp"

\* os.replace(temp_file, self.timestamps_file)
os_replace(fs, src, dst) ==
    IF src = dst THEN fs ELSE [fs EXCEPT ![dst] = fs[src], ![src] = AbsentFile]

\* temp_file.unlink() of the except branch.
unlink(fs, name) == [fs EXCEPT ![name] = AbsentFile]

\* save_timestamps run to its end: the text is written to the temporary file,
\* which then replaces the store file; on an OSError (ok = FALSE) the temporary
\* file is removed and the store file is left alone.
\* A faulty save, to compare with: the store file written in place, so that a
\* failure leaves it cut short.
save_timestamps_in_place(s, ok) ==
    IF ok
    THEN [s EXCEPT !.files[store_file] = JsonDump(s.timestamps)]
    ELSE [s EXCEPT !.files[store_file] =
                      [exists |-> TRUE, complete |-> FALSE, top |-> "object",
                       members |-> <<>>]]

save_timestamps(s, ok) ==
    IF ok
    THEN [s EXCEPT !.files =
            os_replace([@ EXCEPT ![temp_file] = JsonDump(s.timestamps)], temp_file, store_file)]
    ELSE [s EXCEPT !.files = unlink(@, temp_file)]

\* ------------------------------------------------------------- settings
DEFAULT_LIBRARY_DIR_NAME == "DigitalLibrary"
DEFAULT_APPEARANCE_MODE == "System"
DEFAULT_NOTES_FONT_SIZE == 12
MinFontSize == 6
MaxFontSize == 72
AppearanceModes == {"Light", "Dark", "System"}

\* The texts a settings file or the settings dialog may hold for the font
\* size, and int() of them (ValueError where IsInt is false).
DecimalTexts == {"5", "6", "12", "72", "73"}
FontTexts == DecimalTexts \cup {"012", "abc", "50%"}
IsInt(text) == text \in DecimalTexts \cup {"012"}
IntOf(text) ==
    CASE text = "5" -> 5
      [] text = "6" -> 6
      [] text \in {"12", "012"} -> 12
      [] text = "72" -> 72
      [] text = "73" -> 73
\* str() of an int: its decimal text without leading zeros.
StrOf(n) == CHOOSE text \in DecimalTexts : IntOf(text) = n

\* The texts a settings file may hold for the appearance mode, and
\* str.capitalize() of them.
ModeTexts == AppearanceModes \cup {"dark", "blue", "Da%rk"}
Capitalize(text) ==
    CASE text = "dark" -> "Dark"
      [] text = "blue" -> "Blue"
      [] OTHER -> text

\* The library paths of this model and the ones that are directories when
\* the application starts.
PathTexts == {DEFAULT_LIBRARY_DIR_NAME, "Other", "Gone"}
ExistingDirs == {DEFAULT_LIBRARY_DIR_NAME, "Other"}

\* library_settings.ini: whether it exists, whether configparser can read it
\* (section headers in place), and the three options of [Settings], None
\* for an option that is not there.
AbsentSettings ==
    [exists |-> FALSE, parses |-> FALSE, library_path |-> None,
     appearance_mode |-> None, notes_font_size |-> None]
SettingsFile(path, mode, size) ==
    [exists |-> TRUE, parses |-> TRUE, library_path |-> path,
     appearance_mode |-> mode, notes_font_size |-> size]

\* What save_config writes for the settings s holds in memory.
ConfigOf(s) == SettingsFile(s.library_path, s.appearance_mode, StrOf(s.notes_font_size))

\* The file of a first launch.
Config ==
    SettingsFile(DEFAULT_LIBRARY_DIR_NAME, DEFAULT_APPEARANCE_MODE,
                 StrOf(DEFAULT_NOTES_FONT_SIZE))

\* save_config.  With a disk that refuses writes open() raises: the error is
\* shown and the file stays as it was.
save_config(s, ok) ==
    IF ok
    THEN [s EXCEPT !.settings_file = ConfigOf(s)]
    ELSE [s EXCEPT !.dialog = "Could not save settings file."]

\* BasicInterpolation: reading an option whose value holds a lone % raises
\* InterpolationSyntaxError.
BadInterpolation(text) == text \in {"50%", "Da%rk"}

\* An option of the file, the default where the file has none.
Option(value, default) == IF value = None THEN default ELSE value

\* load_settings on the file stored: the settings in memory, the file as it
\* is left, and the dialog shown.  ok: whether the file can be written.
load_settings(stored, ok) ==
    LET defaults == [library_path |-> DEFAULT_LIBRARY_DIR_NAME,
                     appearance_mode |-> DEFAULT_APPEARANCE_MODE,
                     notes_font_size |-> DEFAULT_NOTES_FONT_SIZE,
                     settings_file |-> stored, dialog |-> None]
        path == Option(stored.library_path, DEFAULT_LIBRARY_DIR_NAME)
        mode == Option(stored.appearance_mode, DEFAULT_APPEARANCE_MODE)
        size == Option(stored.notes_font_size, StrOf(DEFAULT_NOTES_FONT_SIZE))
    IN IF ~stored.exists
       THEN save_config(defaults, ok)
       ELSE IF \/ ~stored.parses
               \/ BadInterpolation(path) \/ BadInterpolation(mode)
               \/ BadInterpolation(size)
       THEN [defaults EXCEPT !.dialog = "Could not load or create settings file."]
       ELSE save_config(
              [defaults EXCEPT
                 !.library_path = IF path \in ExistingDirs THEN path ELSE @,
                 !.appearance_mode =
                     IF Capitalize(mode) \in AppearanceModes THEN Capitalize(mode) ELSE @,
                 !.notes_font_size =
                     IF IsInt(size) /\ MinFontSize <= IntOf(size) /\ IntOf(size) <= MaxFontSize
                     THEN IntOf(size) ELSE @],
              ok)

\* ------------------------------------------------------- the media engine
\* The one vlc.MediaPlayer of initialize_vlc: its media, its state, and what
\* get_time() and get_length() return (-1 with no input, length 0 while the
\* length is not known yet).
VlcIdle == [media |-> None, state |-> "NothingSpecial", time |-> -1, length |-> -1]

\* initialize_vlc failed: self.vlc_player is None.
NoPlayer == [media |-> None, state |-> "NoPlayer", time |-> -1, length |-> -1]

\* vlc_player.stop()
vlc_stop(v) ==
    IF v.media = None THEN v
    ELSE [v EXCEPT !.state = "Stopped", !.time = -1, !.length = -1]

\* vlc_player.play() that did not return -1.
vlc_play(v) ==
    CASE v.media = None -> v
      [] v.state = "Paused" -> [v EXCEPT !.state = "Playing"]
      [] v.state = "Playing" -> v
      [] OTHER -> [v EXCEPT !.state = "Opening", !.time = -1, !.length = -1]

\* vlc_player.pause() on a playing player.
vlc_pause(v) == IF v.state = "Playing" THEN [v EXCEPT !.state = "Paused"] ELSE v

\* vlc_player.set_time(t): a seek needs a running input.
vlc_set_time(v, t) ==
    IF v.state \in {"Playing", "Paused"} THEN [v EXCEPT !.time = t] ELSE v

\* The input opened: the engine plays from the start, its length known at once
\* (length > 0) or later (length = 0).
vlc_opened(v, length) == [v EXCEPT !.state = "Playing", !.time = 0, !.length = length]

\* The engine holds its resource: an input is open (being opened, playing, paused).
VlcHandleOpen(v) == v.media # None /\ v.state \in {"Opening", "Playing", "Paused"}

\* ------------------------------------------------------------ zoom steps
ZoomIndex(z) == CHOOSE i \in 1..Len(PDF_ZOOM_STEPS) : PDF_ZOOM_STEPS[i] = z
InZoomSteps(z) == \E i \in 1..Len(PDF_ZOOM_STEPS) : PDF_ZOOM_STEPS[i] = z

\* len(self.pdf_doc) of the library's PDF.
PageCount(path) == IF path = "e.pdf" THEN 0 ELSE PdfPages


\* ------------------------------------------------------------------ state
VARIABLES
    vlc,                      \* the media engine (self.vlc_player)
    current_vlc_media_path,
    is_vlc_playing,
    pdf_doc,                  \* the open fitz.Document (its path), or None
    current_pdf_path,
    pdf_current_page_index,
    pdf_page_count,
    pdf_zoom_level,
    active_media_type,
    view,                     \* what manage_views showed last
    timestamps,               \* self.timestamps
    files,                    \* the store file and its temporary twin
    restore_pending,          \* queued after(300, _restore_vlc_state)
    restart_pending,          \* queued after(50, _restart_playback)
    render_pending,           \* queued after(50, render_pdf_page)
    restore_frames,           \* wait_attempts of each _restore_vlc_state inside window.update()
    save_pc,                  \* where a save_timestamps in progress stands
    save_old,                 \* the store file as it was when that save began
    save_data,                \* the mapping that save was given
    save_result,              \* how the last save_timestamps ended
    disk_ok,                  \* whether the library directory can be written
    library,                  \* the media files found under library_path
    dialog,                   \* the message of the error dialog the latest handler
                              \* raised (show_error), None if it raised none
    app,                      \* "running", "aborted" (__init__ raised) or
                              \* "destroyed" (on_close destroyed the window)
    notes_changed,            \* the note has edits that were not saved
    notes_file,               \* the file of the note, None for a new note
    settings_file,            \* what library_settings.ini holds
    library_path,             \* the settings in memory
    appearance_mode,
    notes_font_size,
    cards,                    \* the files of the cards in the library view, in order
    search_var,               \* the text of the search box
    search_active,
    speed_var,                \* the text the speed menu shows
    vlc_rate,                 \* the engine's playback rate, in hundredths
    resume_from               \* history: the resumable position the store held for
                              \* the media a selection began to play, while that
                              \* selection's restore is still to come; -1 otherwise

vars == <<vlc, current_vlc_media_path, is_vlc_playing, pdf_doc, current_pdf_path,
          pdf_current_page_index, pdf_page_count, pdf_zoom_level, active_media_type,
          view, timestamps, files, restore_pending, restart_pending, render_pending,
          restore_frames, save_pc, save_old, save_data, save_result, disk_ok,
          library, dialog, app, notes_changed, notes_file, settings_file,
          library_path, appearance_mode, notes_font_size, cards, search_var,
          search_active, speed_var, vlc_rate, resume_from>>

\* The object as one value, at the start of a handler: what the handlers below
\* transform.
Self ==
    [vlc |-> vlc, current_vlc_media_path |-> current_vlc_media_path,
     is_vlc_playing |-> is_vlc_playing, pdf_doc |-> pdf_doc,
     current_pdf_path |-> current_pdf_path,
     pdf_current_page_index |-> pdf_current_page_index,
     pdf_page_count |-> pdf_page_count, pdf_zoom_level |-> pdf_zoom_level,
     active_media_type |-> active_media_type, view |-> view,
     timestamps |-> timestamps, files |-> files,
     restore_pending |-> restore_pending, restart_pending |-> restart_pending,
     render_pending |-> render_pending, restore_frames |-> restore_frames,
     dialog |-> None, app |-> app, notes_changed |-> notes_changed,
     notes_file |-> notes_file, settings_file |-> settings_file,
     library_path |-> library_path, appearance_mode |-> appearance_mode,
     notes_font_size |-> notes_font_size, library |-> library,
     cards |-> cards, search_var |-> search_var, search_active |-> search_active,
     speed_var |-> speed_var, vlc_rate |-> vlc_rate]

\* The object as a handler leaves it.
Assign(s) ==
    /\ app = "running"
    /\ app' = s.app
    /\ dialog' = s.dialog
    /\ vlc' = s.vlc
    /\ current_vlc_media_path' = s.current_vlc_media_path
    /\ is_vlc_playing' = s.is_vlc_playing
    /\ pdf_doc' = s.pdf_doc
    /\ current_pdf_path' = s.current_pdf_path
    /\ pdf_current_page_index' = s.pdf_current_page_index
    /\ pdf_page_count' = s.pdf_page_count
    /\ pdf_zoom_level' = s.pdf_zoom_level
    /\ active_media_type' = s.active_media_type
    /\ view' = s.view
    /\ timestamps' = s.timestamps
    /\ files' = s.files
    /\ restore_pending' = s.restore_pending
    /\ restart_pending' = s.restart_pending
    /\ render_pending' = s.render_pending
    /\ restore_frames' = s.restore_frames
    /\ notes_changed' = s.notes_changed
    /\ notes_file' = s.notes_file
    /\ settings_file' = s.settings_file
    /\ library_path' = s.library_path
    /\ appearance_mode' = s.appearance_mode
    /\ notes_font_size' = s.notes_font_size
    /\ library' = s.library
    /\ cards' = s.cards
    /\ search_var' = s.search_var
    /\ search_active' = s.search_active
    /\ speed_var' = s.speed_var
    /\ vlc_rate' = s.vlc_rate
    /\ UNCHANGED <<save_pc, save_old, save_data, save_result, disk_ok>>

\* A _restore_vlc_state got past its wait loop (or its guard) in the handler
\* that leaves s.
RestoreRan(s) ==
    \/ s.restore_pending < restore_pending /\ Len(s.restore_frames) = Len(restore_frames)
    \/ Len(s.restore_frames) < Len(restore_frames)

\* The position a selection that leaves s has to resume from.
ResumeFrom(s) ==
    IF s.restore_pending > restore_pending
       /\ MediaKey(s.current_vlc_media_path) \in DOMAIN s.timestamps
    THEN LET rec == s.timestamps[MediaKey(s.current_vlc_media_path)]
         IN IF 0 < rec.position /\ rec.position < rec.duration
            THEN rec.position ELSE -1
    ELSE -1

Commit(s) ==
    /\ Assign(s)
    /\ resume_from' = IF RestoreRan(s) THEN -1 ELSE resume_from

\* --------------------------------------------------------------- flushing
\* A faulty test, to compare with: the margin's first millisecond left out.
is_finished_strict(duration, current_time) ==
    duration > 0 /\ current_time > duration - TRAILING_MARGIN

\* is_finished of save_current_vlc_timestamp and update_all_cards_display.
is_finished(duration, current_time) ==
    duration > 0 /\ current_time >= duration - TRAILING_MARGIN

\* A faulty record, to compare with: the engine position kept when finished.
timestamp_data_raw(path, current_time, duration) ==
    [position |-> current_time,
     duration |-> duration,
     last_played |-> "now",
     filename |-> FileName(path),
     finished |-> is_finished(duration, current_time)]

\* The record both write for the media at current_vlc_media_path.
timestamp_data(path, current_time, duration) ==
    [position |-> IF is_finished(duration, current_time) THEN 0 ELSE current_time,
     duration |-> duration,
     last_played |-> "now",
     filename |-> FileName(path),
     finished |-> is_finished(duration, current_time)]

\* A faulty flush, to compare with: the store becomes the one record written.
save_current_vlc_timestamp_alone(s, ok) ==
    IF s.current_vlc_media_path = None \/ s.vlc.media = None THEN s
    ELSE IF s.vlc.state \in {"Playing", "Paused"} /\ s.vlc.length >= 0 /\ s.vlc.time >= 0
    THEN save_timestamps(
           [s EXCEPT !.timestamps =
              DictSet(EmptyDict, MediaKey(s.current_vlc_media_path),
                      timestamp_data(s.current_vlc_media_path, s.vlc.time, s.vlc.length))],
           ok)
    ELSE s

save_current_vlc_timestamp(s, ok) ==
    IF s.current_vlc_media_path = None THEN s
    ELSE IF s.vlc.media = None THEN s
    ELSE LET current_time_ms == s.vlc.time
             duration_ms == s.vlc.length
             should_save == s.vlc.state \in {"Playing", "Paused"}
             media_key == MediaKey(s.current_vlc_media_path)
         IN IF should_save /\ duration_ms >= 0 /\ current_time_ms >= 0
            THEN save_timestamps(
                   [s EXCEPT !.timestamps =
                               DictSet(@, media_key,
                                       timestamp_data(s.current_vlc_media_path,
                                                      current_time_ms, duration_ms))],
                   ok)
            ELSE s

\* update_playback_progress sets the progress slider and the time label, which
\* are no part of the state here: it leaves the object as it is.
update_playback_progress(s, force_update) == s

\* A faulty tick, to compare with: it takes the playing flag from the engine.
periodic_save_timestamp_syncing(s, ok) ==
    IF s.current_vlc_media_path # None
    THEN save_current_vlc_timestamp([s EXCEPT !.is_vlc_playing = s.vlc.state = "Playing"], ok)
    ELSE s

periodic_save_timestamp(s, ok) ==
    IF s.current_vlc_media_path # None /\ s.is_vlc_playing
    THEN save_current_vlc_timestamp(s, ok)
    ELSE s

update_all_cards_display(s) ==
    LET s1 == IF s.current_vlc_media_path # None
                 /\ s.vlc.state \in {"Playing", "Paused"}
                 /\ s.vlc.length >= 0 /\ s.vlc.time >= 0
              THEN [s EXCEPT !.timestamps =
                      DictSet(@, MediaKey(s.current_vlc_media_path),
                              timestamp_data(s.current_vlc_media_path,
                                             s.vlc.time, s.vlc.length))]
              ELSE s
        pdf_key == MediaKey(s1.current_pdf_path)
    IN IF s1.pdf_doc # None /\ s1.current_pdf_path # None
       THEN LET old == IF pdf_key \in DOMAIN s1.timestamps
                       THEN s1.timestamps[pdf_key] ELSE EmptyDict
            IN [s1 EXCEPT !.timestamps =
                  DictSet(@, pdf_key,
                          DictSet(DictSet(old, "last_opened", "now"),
                                  "filename", FileName(s1.current_pdf_path)))]
       ELSE s1


\* ------------------------------------------------------------ transitions
manage_views(s, view_type) == [s EXCEPT !.view = view_type]

\* The PDF half of stop_and_save_current_media.
stop_and_save_pdf(s, ok) ==
    IF s.pdf_doc # None /\ s.current_pdf_path # None
    THEN LET media_key == MediaKey(s.current_pdf_path)
             s1 == IF media_key \in DOMAIN s.timestamps
                   THEN save_timestamps(
                          [s EXCEPT !.timestamps =
                             DictSet(@, media_key,
                                     DictSet(DictSet(s.timestamps[media_key],
                                                     "pdf_page", s.pdf_current_page_index),
                                             "pdf_zoom", s.pdf_zoom_level))],
                          ok)
                   ELSE s
         IN [s1 EXCEPT !.pdf_doc = None, !.pdf_page_count = 0,
                       !.pdf_current_page_index = 0]
    ELSE s

\* A faulty engine half, to compare with: it saves but does not stop.
stop_and_save_vlc_nostop(s, ok) ==
    IF s.current_vlc_media_path # None
    THEN [(IF s.vlc.state \in {"Playing", "Paused"}
           THEN save_current_vlc_timestamp(s, ok) ELSE s)
          EXCEPT !.is_vlc_playing = FALSE]
    ELSE s

\* A faulty engine half, to compare with: it stops but does not save.
stop_and_save_vlc_nosave(s, ok) ==
    IF s.current_vlc_media_path # None
    THEN [s EXCEPT !.vlc = IF s.vlc.state \notin {"Stopped", "NothingSpecial", "Ended"}
                           THEN vlc_stop(@) ELSE @,
                   !.is_vlc_playing = FALSE]
    ELSE s

\* The engine half of stop_and_save_current_media.
stop_and_save_vlc(s, ok) ==
    IF s.current_vlc_media_path # None
    THEN LET s1 == IF s.vlc.state \in {"Playing", "Paused"}
                   THEN [save_current_vlc_timestamp(s, ok) EXCEPT !.vlc = vlc_stop(@)]
                   ELSE IF s.vlc.state \notin {"Stopped", "NothingSpecial", "Ended"}
                   THEN [s EXCEPT !.vlc = vlc_stop(@)]
                   ELSE s
         IN [s1 EXCEPT !.is_vlc_playing = FALSE]
    ELSE s

stop_and_save_current_media(s, ok) ==
    [stop_and_save_pdf(stop_and_save_vlc(s, ok), ok) EXCEPT !.active_media_type = None]

\* Engine handles open in s.
OpenHandles(s) ==
    (IF VlcHandleOpen(s.vlc) THEN 1 ELSE 0) + (IF s.pdf_doc # None THEN 1 ELSE 0)

\* load_vlc_media.  outcome: "ok", "play_failed" (play() returned -1) or
\* "exception" (media_new raised).
load_vlc_media(s, file_path, outcome) ==
    LET stopped == IF s.vlc.media # None THEN vlc_stop(s.vlc) ELSE s.vlc
        s1 == [s EXCEPT !.vlc = stopped]
    IN IF s.vlc = NoPlayer
       THEN [s EXCEPT !.dialog = "VLC is not available. Cannot play media."]
       ELSE IF outcome = "exception"
       THEN manage_views([s1 EXCEPT !.current_vlc_media_path = None,
                                    !.is_vlc_playing = FALSE,
                                    !.dialog = "Could not play file."], None)
       ELSE LET s2 == manage_views(
                        [s1 EXCEPT !.vlc = [stopped EXCEPT !.media = file_path],
                                   !.current_vlc_media_path = file_path],
                        s.active_media_type)
            IN IF outcome = "play_failed"
               THEN manage_views([s2 EXCEPT !.current_vlc_media_path = None,
                                            !.dialog = "Could not start playback."],
                                 None)
               ELSE [s2 EXCEPT !.vlc = vlc_play(@),
                               !.is_vlc_playing = TRUE,
                               !.restore_pending = @ + 1]

\* load_pdf_media.  outcome: "ok" or "exception" (fitz.open raised).
load_pdf_media(s, file_path, outcome, ok) ==
    LET s1 == [s EXCEPT !.pdf_doc = None]
    IN IF outcome = "exception"
       THEN manage_views([s1 EXCEPT !.current_pdf_path = None,
                                    !.active_media_type = None,
                                    !.dialog = "Could not open PDF file."], None)
       ELSE LET media_key == MediaKey(file_path)
                old == IF media_key \in DOMAIN s1.timestamps
                       THEN s1.timestamps[media_key] ELSE EmptyDict
                s2 == save_timestamps(
                        [s1 EXCEPT !.pdf_doc = file_path,
                                   !.current_pdf_path = file_path,
                                   !.pdf_page_count = PageCount(file_path),
                                   !.pdf_current_page_index = 0,
                                   !.pdf_zoom_level = 100,
                                   !.timestamps =
                                      DictSet(@, media_key,
                                              DictSet(DictSet(old, "last_opened", "now"),
                                                      "filename", FileName(file_path)))],
                        ok)
            IN IF s2.pdf_page_count > 0
               THEN [manage_views(s2, "pdf") EXCEPT !.render_pending = @ + 1]
               ELSE manage_views(
                      [s2 EXCEPT !.pdf_doc = None,
                                 !.current_pdf_path = None,
                                 !.dialog = "The selected PDF file appears to be empty."],
                      None)

handle_media_click(s, file_path, outcome, ok) ==
    LET s1 == stop_and_save_current_media(s, ok)
        file_ext == Suffix(file_path)
    IN IF file_ext \in SUPPORTED_VIDEO_EXT \/ file_ext \in SUPPORTED_AUDIO_EXT
       THEN load_vlc_media(
              [s1 EXCEPT !.active_media_type =
                 IF file_ext \in SUPPORTED_VIDEO_EXT THEN "video" ELSE "audio"],
              file_path, outcome)
       ELSE IF file_ext \in SUPPORTED_PDF_EXT
       THEN load_pdf_media([s1 EXCEPT !.active_media_type = "pdf"], file_path, outcome, ok)
       ELSE manage_views([s1 EXCEPT !.active_media_type = None,
                                    !.dialog = "Cannot open file type."], None)


\* ------------------------------------------------------------ playback speed
\* Texts are sequences of characters.  Some of the speeds of the speed menu, and
\* the one it shows at the start.
DEFAULT_SPEED == <<"1", ".", "0", "x">>
SpeedTexts ==
    {<<"0", ".", "5", "x">>, DEFAULT_SPEED, <<"1", ".", "2", "5", "x">>,
     <<"1", ".", "5", "x">>, <<"2", ".", "0", "x">>}

DigitChars == <<"0", "1", "2", "3", "4", "5", "6", "7", "8", "9">>
DigitOf(c) == (CHOOSE i \in 1..10 : DigitChars[i] = c) - 1
NotX(c) == c # "x"

\* float(speed_str.replace('x', '')), in hundredths.
SpeedValue(speed_str) ==
    LET body == SelectSeq(speed_str, NotX)
    IN 100 * DigitOf(body[1])
       + (IF Len(body) >= 3 THEN 10 * DigitOf(body[3]) ELSE 0)
       + (IF Len(body) >= 4 THEN DigitOf(body[4]) ELSE 0)

\* str.replace(old, new) for an old that ends in the x a text has only at its
\* end.
ReplaceTail(text, old, new) ==
    IF Len(text) >= Len(old) /\ SubSeq(text, Len(text) - Len(old) + 1, Len(text)) = old
    THEN SubSeq(text, 1, Len(text) - Len(old)) \o new
    ELSE text

\* f"{current_rate:.2f}x".replace('.00x','x').replace('.50x','.5x') and the two
\* replacements after it, which put back what they find.
FormatRate(rate) ==
    LET two == <<DigitChars[(rate \div 100) + 1], ".",
                 DigitChars[((rate \div 10) % 10) + 1], DigitChars[(rate % 10) + 1], "x">>
    IN ReplaceTail(ReplaceTail(two, <<".", "0", "0", "x">>, <<"x">>),
                   <<".", "5", "0", "x">>, <<".", "5", "x">>)

\* change_playback_speed.  set_rate_ok: whether set_rate() returns 0.
change_playback_speed(s, speed_str, set_rate_ok) ==
    IF s.vlc = NoPlayer \/ s.current_vlc_media_path = None THEN s
    ELSE IF s.vlc.state \in {"Playing", "Paused"}
    THEN IF set_rate_ok
         THEN [s EXCEPT !.vlc_rate = SpeedValue(speed_str)]
         ELSE [s EXCEPT !.speed_var = FormatRate(s.vlc_rate)]
    ELSE s

\* A speed is picked in the speed menu: the menu puts it into its variable,
\* speed_var, and calls its command, change_playback_speed, with it.
speed_menu_select(s, value, set_rate_ok) ==
    change_playback_speed([s EXCEPT !.speed_var = value], value, set_rate_ok)

\* ------------------------------------------------------- restoring a session
\* The "Restore position" part of _restore_vlc_state, with the duration its
\* loop ended on.  With no current media the first use of
\* current_vlc_media_path raises, which the handler's except swallows.
restore_position(s, duration) ==
    IF s.current_vlc_media_path = None THEN s
    ELSE LET media_key == MediaKey(s.current_vlc_media_path)
             has == media_key \in DOMAIN s.timestamps
                    /\ "position" \in DOMAIN s.timestamps[media_key]
             saved_time_ms == IF has THEN s.timestamps[media_key].position ELSE 0
             seek == IF ~has THEN -1
                     ELSE IF duration > 0 /\ 0 < saved_time_ms /\ saved_time_ms < duration
                     THEN saved_time_ms
                     ELSE IF saved_time_ms <= 0 THEN -1
                     ELSE 0
             s1 == [s EXCEPT !.vlc = IF seek >= 0 THEN vlc_set_time(@, seek) ELSE @]
         \* "Restore playback speed", with an engine that takes the rate.
         IN IF s1.vlc.state \in {"Playing", "Paused"}
            THEN change_playback_speed(s1, s1.speed_var, TRUE)
            ELSE s1

\* _restore_vlc_state up to its first window.update(): the guard and the first
\* round of the wait loop.  A frame is pushed when the loop has to wait.
restore_vlc_state(s) ==
    IF s.current_vlc_media_path = None \/ s.vlc.media = None THEN s
    ELSE IF s.vlc.length > 0 THEN restore_position(s, s.vlc.length)
    ELSE [s EXCEPT !.restore_frames = Append(@, 1)]

\* One more round of the wait loop of the innermost _restore_vlc_state, after
\* its window.update() returned: the loop's test, get_length(), and either the
\* restore or the next wait; past max_attempts rounds the loop ends without a
\* duration.
\* A wait loop without max_attempts: it goes on waiting for the length.
restore_poll_unbounded(s) ==
    LET popped == [s EXCEPT !.restore_frames = SubSeq(@, 1, Len(@) - 1)]
    IN IF s.vlc.length > 0 THEN restore_position(popped, s.vlc.length) ELSE s

restore_poll(s) ==
    LET wait_attempts == s.restore_frames[Len(s.restore_frames)]
        popped == [s EXCEPT !.restore_frames = SubSeq(@, 1, Len(@) - 1)]
    IN IF wait_attempts < max_attempts
       THEN IF s.vlc.length > 0 THEN restore_position(popped, s.vlc.length)
            ELSE [s EXCEPT !.restore_frames[Len(s.restore_frames)] = wait_attempts + 1]
       ELSE restore_position(popped, 0)

\* The rounds of the loop up to its next window.update() that finds something
\* to dispatch: with the length still unknown the rounds in between change
\* nothing but wait_attempts, which the last of them may leave at
\* max_attempts; with the length known, or max_attempts reached, the loop ends.
restore_rounds(s) ==
    IF s.restore_frames[Len(s.restore_frames)] < max_attempts /\ s.vlc.length <= 0
    THEN [s EXCEPT !.restore_frames[Len(s.restore_frames)] = max_attempts]
    ELSE restore_poll(s)

\* ------------------------------------------------------- transport commands
\* A faulty pause, to compare with: the flush is left to the timer.
toggle_play_pause_lazy(s, play_ok, ok) ==
    IF s.current_vlc_media_path = None THEN s
    ELSE IF s.vlc.state = "Playing"
    THEN [s EXCEPT !.vlc = vlc_pause(@), !.is_vlc_playing = FALSE]
    ELSE IF s.vlc.state = "Ended"
    THEN [s EXCEPT !.vlc = vlc_stop(@), !.restart_pending = @ + 1]
    ELSE IF ~play_ok THEN [s EXCEPT !.dialog = "VLC failed to play."]
    ELSE [s EXCEPT !.vlc = vlc_play(@), !.is_vlc_playing = TRUE]

\* play_ok: whether play() returns something other than -1.
toggle_play_pause(s, play_ok, ok) ==
    IF s.current_vlc_media_path = None THEN s
    ELSE IF s.vlc.state = "Playing"
    THEN save_current_vlc_timestamp(
           [s EXCEPT !.vlc = vlc_pause(@), !.is_vlc_playing = FALSE], ok)
    ELSE IF s.vlc.state = "Ended"
    THEN [s EXCEPT !.vlc = vlc_stop(@), !.restart_pending = @ + 1]
    ELSE IF ~play_ok THEN [s EXCEPT !.dialog = "VLC failed to play."]
    ELSE [s EXCEPT !.vlc = vlc_play(@), !.is_vlc_playing = TRUE]

restart_playback(s, play_ok) ==
    IF s.vlc # NoPlayer /\ s.current_vlc_media_path # None /\ play_ok
    THEN restore_vlc_state([s EXCEPT !.vlc = vlc_play(@), !.is_vlc_playing = TRUE])
    ELSE s

\* ------------------------------------------------------------------ seeking
\* What skip_time keeps clear of the end, and the offsets of its two buttons.
SKIP_END_MARGIN == 100
SkipOffsets == {-5000, 5000}

\* The positions of the progress slider (from_=0, to=100) a user lets go at.
SliderValues == {0, 50, 100}

\* skip_time.  seekable: what is_seekable() returns.
skip_time(s, ms_offset, seekable) ==
    IF s.vlc = NoPlayer \/ s.current_vlc_media_path = None \/ ~seekable THEN s
    ELSE LET current_time == s.vlc.time
             duration == s.vlc.length
             new_time == IF duration > 0
                         THEN IF current_time + ms_offset > duration - SKIP_END_MARGIN
                              THEN IF duration - SKIP_END_MARGIN < 0
                                   THEN 0 ELSE duration - SKIP_END_MARGIN
                              ELSE IF current_time + ms_offset < 0
                                   THEN 0 ELSE current_time + ms_offset
                         ELSE IF current_time + ms_offset < 0
                              THEN 0 ELSE current_time + ms_offset
         IN [s EXCEPT !.vlc = vlc_set_time(@, new_time)]

\* int((value / 100.0) * duration)
slider_target(value, duration) == (value * duration) \div 100

\* on_media_slider_release.  value: where the slider was let go.
on_media_slider_release(s, value, seekable, ok) ==
    IF s.vlc = NoPlayer \/ s.current_vlc_media_path = None \/ ~seekable THEN s
    ELSE IF s.vlc.length > 0
    THEN LET s1 == [s EXCEPT !.vlc = vlc_set_time(@, slider_target(value, s.vlc.length))]
         IN IF ~s1.is_vlc_playing THEN save_current_vlc_timestamp(s1, ok) ELSE s1
    ELSE s

\* ---------------------------------------------------------------- the PDF
\* render_ok: whether load_page / get_pixmap succeed.
render_pdf_page(s, page_index, render_ok) ==
    IF s.pdf_doc = None THEN s
    ELSE IF ~(0 <= page_index /\ page_index < s.pdf_page_count) THEN s
    ELSE IF render_ok THEN [s EXCEPT !.pdf_current_page_index = page_index]
    ELSE s

\* pdf_next_page without the comparison against the page count.
pdf_next_page_unclamped(s, render_ok) ==
    IF s.pdf_doc # None /\ render_ok
    THEN [s EXCEPT !.pdf_current_page_index = @ + 1]
    ELSE s

pdf_next_page(s, render_ok) ==
    IF s.pdf_doc # None /\ s.pdf_current_page_index < s.pdf_page_count - 1
    THEN render_pdf_page(s, s.pdf_current_page_index + 1, render_ok)
    ELSE s

pdf_previous_page(s, render_ok) ==
    IF s.pdf_doc # None /\ s.pdf_current_page_index > 0
    THEN render_pdf_page(s, s.pdf_current_page_index - 1, render_ok)
    ELSE s

\* The zoom levels above (below) z, for a z that is no step.
StepsAbove(z) == {i \in 1..Len(PDF_ZOOM_STEPS) : PDF_ZOOM_STEPS[i] > z}
StepsBelow(z) == {i \in 1..Len(PDF_ZOOM_STEPS) : PDF_ZOOM_STEPS[i] < z}
Min(S) == CHOOSE x \in S : \A y \in S : x <= y
Max(S) == CHOOSE x \in S : \A y \in S : x >= y

\* pdf_zoom_in by a fixed increment instead of the next entry of the list.
pdf_zoom_in_increment(s, render_ok) ==
    IF s.pdf_doc = None THEN s
    ELSE render_pdf_page([s EXCEPT !.pdf_zoom_level = @ + 25],
                         s.pdf_current_page_index, render_ok)

pdf_zoom_in(s, render_ok) ==
    IF s.pdf_doc = None THEN s
    ELSE IF InZoomSteps(s.pdf_zoom_level)
    THEN IF ZoomIndex(s.pdf_zoom_level) < Len(PDF_ZOOM_STEPS)
         THEN render_pdf_page(
                [s EXCEPT !.pdf_zoom_level = PDF_ZOOM_STEPS[ZoomIndex(s.pdf_zoom_level) + 1]],
                s.pdf_current_page_index, render_ok)
         ELSE s
    ELSE IF StepsAbove(s.pdf_zoom_level) # {}
    THEN render_pdf_page(
           [s EXCEPT !.pdf_zoom_level = PDF_ZOOM_STEPS[Min(StepsAbove(s.pdf_zoom_level))]],
           s.pdf_current_page_index, render_ok)
    ELSE s

pdf_zoom_out(s, render_ok) ==
    IF s.pdf_doc = None THEN s
    ELSE IF InZoomSteps(s.pdf_zoom_level)
    THEN IF ZoomIndex(s.pdf_zoom_level) > 1
         THEN render_pdf_page(
                [s EXCEPT !.pdf_zoom_level = PDF_ZOOM_STEPS[ZoomIndex(s.pdf_zoom_level) - 1]],
                s.pdf_current_page_index, render_ok)
         ELSE s
    ELSE IF StepsBelow(s.pdf_zoom_level) # {}
    THEN render_pdf_page(
           [s EXCEPT !.pdf_zoom_level = PDF_ZOOM_STEPS[Max(StepsBelow(s.pdf_zoom_level))]],
           s.pdf_current_page_index, render_ok)
    ELSE s


\* ---------------------------------------------------------- notes, closing
\* The file a user picks in the Save As dialog.
NoteFile == "Untitled.txt"

\* save_notes.  chosen: the user picks a file in the Save As dialog of a new
\* note (rather than cancelling it); write_ok: the file can be written.
save_notes(s, chosen, write_ok) ==
    IF s.notes_file = None /\ ~chosen THEN s
    ELSE LET s1 == [s EXCEPT !.notes_file = IF @ = None THEN NoteFile ELSE @]
         IN IF write_ok
            THEN [s1 EXCEPT !.notes_changed = FALSE]
            ELSE [s1 EXCEPT !.dialog = "Could not save the notes file."]

\* What save_notes returns.
save_notes_result(s, chosen, write_ok) ==
    (s.notes_file # None \/ chosen) /\ write_ok

\* _confirm_discard_note_changes.  response: the button of the
\* askyesnocancel box, "yes" (save), "no" (discard) or "cancel".
confirm_discard_note_changes(s, response, chosen, write_ok) ==
    IF response = "yes" THEN save_notes(s, chosen, write_ok) ELSE s

\* What _confirm_discard_note_changes returns.
confirm_discard_note_changes_result(s, response, chosen, write_ok) ==
    CASE response = "yes" -> save_notes_result(s, chosen, write_ok)
      [] response = "no" -> TRUE
      [] OTHER -> FALSE

\* vlc_player.release() and self.vlc_player = None.
vlc_release(v) == NoPlayer

\* A shutdown without steps 2 to 4: the media is not stopped and the engine
\* is not released.
close_application_unreleased(s, ok) ==
    [save_config(save_timestamps(s, ok), ok) EXCEPT !.app = "destroyed"]

\* on_close past the question about the note: steps 2 to 7.
close_application(s, ok) ==
    LET s2 == stop_and_save_current_media(s, ok)
        s4 == [s2 EXCEPT !.vlc = IF @ = NoPlayer THEN @ ELSE vlc_release(@)]
        s5 == save_timestamps(s4, ok)
        s6 == save_config(s5, ok)
    IN [s6 EXCEPT !.app = "destroyed"]

\* on_close that goes on whatever the answer about the note was.
on_close_regardless(s, response, chosen, write_ok, ok) ==
    close_application(s, ok)

\* on_close that destroys the window without the media flush of step 2.
on_close_unflushed(s, response, chosen, write_ok, ok) ==
    IF s.notes_changed
       /\ ~confirm_discard_note_changes_result(s, response, chosen, write_ok)
    THEN confirm_discard_note_changes(s, response, chosen, write_ok)
    ELSE [save_config(save_timestamps([s EXCEPT !.vlc = NoPlayer, !.pdf_doc = None], ok), ok)
            EXCEPT !.app = "destroyed"]

on_close(s, response, chosen, write_ok, ok) ==
    IF s.notes_changed
    THEN IF confirm_discard_note_changes_result(s, response, chosen, write_ok)
         THEN close_application(
                confirm_discard_note_changes(s, response, chosen, write_ok), ok)
         ELSE confirm_discard_note_changes(s, response, chosen, write_ok)
    ELSE close_application(s, ok)

\* ------------------------------------------------------- the library view
\* sorted(...) of the supported files under library_path, by lowered name.
sorted_media_files(found) == SortedByName(found)

\* load_library, on a library path that is a directory that can be read.
load_library(s) ==
    [s EXCEPT !.cards = sorted_media_files(s.library), !.search_active = FALSE]

\* filter_library matching the name as it is, not lowered.
filter_library_cased(s, text) ==
    LET search_term == Strip(Lower(text))
    IN IF search_term = <<>> /\ s.search_active THEN load_library(s)
       ELSE IF search_term = <<>> THEN [s EXCEPT !.search_var = text]
       ELSE [s EXCEPT !.search_var = text, !.search_active = TRUE,
                      !.cards = SelectSeq(sorted_media_files(s.library),
                                          LAMBDA item : Contains(search_term, NameChars(item)))]

\* The search box is written with text: the trace on search_var calls
\* filter_library.
filter_library(s, text) ==
    LET search_term == Strip(Lower(text))
        s1 == [s EXCEPT !.search_var = text]
    IN IF search_term = <<>> /\ s.search_active THEN load_library(s1)
       ELSE IF search_term = <<>> THEN s1
       ELSE [s1 EXCEPT !.search_active = TRUE,
                       !.cards = SelectSeq(sorted_media_files(s.library),
                                           LAMBDA item :
                                               Contains(search_term, Lower(NameChars(item))))]

\* ------------------------------------------------------ the settings dialog
\* apply_settings, the Save & Close button.  new_path_str, new_mode and
\* new_size_str: what the dialog holds; is_dir: whether new_path_str is a
\* directory; create: the answer to "Create Directory?"; mkdir_ok: whether
\* mkdir works.  A directory the library moves to is a fresh one here: no
\* media and no timestamps.json in it.
apply_settings(s, new_path_str, is_dir, create, mkdir_ok, new_mode, new_size_str, ok) ==
    IF new_path_str = ""
    THEN [s EXCEPT !.dialog = "Library path cannot be empty."]
    ELSE IF ~is_dir /\ create /\ ~mkdir_ok
    THEN [s EXCEPT !.dialog = "Could not create the directory."]
    ELSE LET path_changed == (is_dir \/ create) /\ new_path_str # s.library_path
             s1 == IF path_changed
                   THEN [manage_views(stop_and_save_current_media(s, ok), None)
                           EXCEPT !.library_path = new_path_str]
                   ELSE s
             s2 == [s1 EXCEPT !.appearance_mode = new_mode]
             s3 == IF /\ IsInt(new_size_str)
                      /\ MinFontSize <= IntOf(new_size_str)
                      /\ IntOf(new_size_str) <= MaxFontSize
                   THEN [s2 EXCEPT !.notes_font_size = IntOf(new_size_str)]
                   ELSE [s2 EXCEPT !.dialog =
                           "Please enter a number between 6 and 72 for the notes font size."]
             s4 == save_config(s3, ok)
         IN IF path_changed
            THEN load_library(
                   [s4 EXCEPT !.files = [store |-> AbsentFile, tmp |-> AbsentFile],
                              !.timestamps = load_timestamps(AbsentFile),
                              !.library = {}])
            ELSE s4

\* ---------------------------------------------------------------- startup
\* __init__ with the media files and the store file found in the library
\* directory.  load_library asks self.timestamps.get(...) for every media file:
\* on a value that is no dict this raises AttributeError out of __init__, and
\* the application does not start.
\* stored: library_settings.ini as it was found; settings_ok: whether
\* load_settings could write it.
StartupSettings(found, store, player, stored, settings_ok) ==
    /\ vlc = player
    /\ current_vlc_media_path = None
    /\ is_vlc_playing = FALSE
    /\ pdf_doc = None
    /\ current_pdf_path = None
    /\ pdf_current_page_index = 0
    /\ pdf_page_count = 0
    /\ pdf_zoom_level = 100
    /\ active_media_type = None
    /\ view = None
    /\ files = [store |-> store, tmp |-> AbsentFile]
    /\ timestamps = load_timestamps(store)
    /\ restore_pending = 0
    /\ restart_pending = 0
    /\ render_pending = 0
    /\ restore_frames = <<>>
    /\ save_pc = "idle"
    /\ save_old = store
    /\ save_data = EmptyDict
    /\ save_result = "none"
    /\ disk_ok = TRUE
    /\ library = found
    /\ app = IF load_timestamps_result(store).type # "dict" /\ found # {}
             THEN "aborted" ELSE "running"
    /\ dialog = IF load_timestamps_result(store).error # None
                THEN load_timestamps_result(store).error
                ELSE load_settings(stored, settings_ok).dialog
    /\ notes_changed = FALSE
    /\ notes_file = None
    /\ settings_file = load_settings(stored, settings_ok).settings_file
    /\ library_path = load_settings(stored, settings_ok).library_path
    /\ appearance_mode = load_settings(stored, settings_ok).appearance_mode
    /\ notes_font_size = load_settings(stored, settings_ok).notes_font_size
    /\ cards = SortedByName(found)
    /\ search_var = <<>>
    /\ search_active = FALSE
    /\ speed_var = DEFAULT_SPEED
    /\ vlc_rate = SpeedValue(DEFAULT_SPEED)
    /\ resume_from = -1

\* A first launch: no library_settings.ini yet.
StartupFull(found, store, player, settings_ok) ==
    StartupSettings(found, store, player, AbsentSettings, settings_ok)

StartupWith(found, store, player) == StartupFull(found, store, player, TRUE)

\* initialize_vlc succeeded.
Startup(found, store) == StartupWith(found, store, VlcIdle)

\* ------------------------------------------------------------ user actions
\* A click on a library card.
HandleMediaClick ==
    \E file_path \in library, outcome \in {"ok", "play_failed", "exception"} :
        /\ save_pc = "idle"
        /\ outcome = "play_failed" => Suffix(file_path) \notin SUPPORTED_PDF_EXT
        /\ Suffix(file_path) \in SUPPORTED_PDF_EXT => render_pending < MaxPending
        /\ Suffix(file_path) \notin SUPPORTED_PDF_EXT => restore_pending < MaxPending
        /\ LET s == handle_media_click(Self, file_path, outcome, disk_ok)
           IN Assign(s) /\ resume_from' = ResumeFrom(s)

\* The play/pause button of the media controls.
TogglePlayPause ==
    \E play_ok \in BOOLEAN :
        /\ save_pc = "idle"
        /\ view \in {"video", "audio"}
        /\ restart_pending < MaxPending
        /\ Commit(toggle_play_pause(Self, play_ok, disk_ok))

\* The -5s and +5s buttons of the media controls.
SkipTime ==
    \E ms_offset \in SkipOffsets, seekable \in BOOLEAN :
        /\ save_pc = "idle"
        /\ view \in {"video", "audio"}
        \* With no length to clamp against the position is kept within the media.
        /\ vlc.length <= 0 => vlc.time + ms_offset <= MediaLength
        /\ Commit(skip_time(Self, ms_offset, seekable))

\* The progress slider is let go.
MediaSliderRelease ==
    \E value \in SliderValues, seekable \in BOOLEAN :
        /\ save_pc = "idle"
        /\ view \in {"video", "audio"}
        /\ Commit(on_media_slider_release(Self, value, seekable, disk_ok))

\* The speed menu of the media controls.
ChangePlaybackSpeed ==
    \E value \in SpeedTexts, set_rate_ok \in BOOLEAN :
        /\ save_pc = "idle"
        /\ view \in {"video", "audio"}
        /\ Commit(speed_menu_select(Self, value, set_rate_ok))

\* The buttons of the PDF controls.
PdfNextPage ==
    \E render_ok \in BOOLEAN :
        /\ save_pc = "idle" /\ view = "pdf"
        /\ Commit(pdf_next_page(Self, render_ok))

PdfPreviousPage ==
    \E render_ok \in BOOLEAN :
        /\ save_pc = "idle" /\ view = "pdf"
        /\ Commit(pdf_previous_page(Self, render_ok))

PdfZoomIn ==
    \E render_ok \in BOOLEAN :
        /\ save_pc = "idle" /\ view = "pdf"
        /\ Commit(pdf_zoom_in(Self, render_ok))

PdfZoomOut ==
    \E render_ok \in BOOLEAN :
        /\ save_pc = "idle" /\ view = "pdf"
        /\ Commit(pdf_zoom_out(Self, render_ok))

\* The user types into the note: <<Modified>> with no unsaved edits so far.
OnNotesModified ==
    /\ save_pc = "idle"
    /\ ~notes_changed
    /\ Commit([Self EXCEPT !.notes_changed = TRUE])

\* The texts typed into the search box.
SearchTexts ==
    {<<>>, <<" ">>, <<"a">>, <<"A">>, <<"D">>, <<"m", "p">>, <<"M", "P", "4">>,
     <<".", "p">>, <<"p", " ">>, <<"x">>}

\* The user edits the search box.
SearchWrite ==
    \E text \in SearchTexts :
        /\ save_pc = "idle"
        /\ Commit(filter_library(Self, text))

\* Save & Close in the settings window.
ApplySettings ==
    \E new_path_str \in PathTexts \cup {""}, is_dir \in BOOLEAN, create \in BOOLEAN,
       mkdir_ok \in BOOLEAN, new_mode \in AppearanceModes, new_size_str \in FontTexts :
        /\ save_pc = "idle"
        /\ is_dir => ~create
        /\ ~(~is_dir /\ create) => mkdir_ok
        /\ Commit(apply_settings(Self, new_path_str, is_dir, create, mkdir_ok,
                                 new_mode, new_size_str, disk_ok))

\* Save & Close in the settings window with another directory, one that
\* exists, as the library path and the other fields as they were.
ApplyLibraryPath ==
    \E new_path_str \in ExistingDirs \ {DEFAULT_LIBRARY_DIR_NAME} :
        /\ save_pc = "idle"
        /\ library_path = DEFAULT_LIBRARY_DIR_NAME
        /\ Commit(apply_settings(Self, new_path_str, TRUE, FALSE, TRUE, appearance_mode,
                                 StrOf(notes_font_size), disk_ok))

\* The window's close button (WM_DELETE_WINDOW).
OnClose ==
    \E response \in {"yes", "no", "cancel"}, chosen \in BOOLEAN, write_ok \in BOOLEAN :
        /\ save_pc = "idle"
        /\ Commit(on_close(Self, response, chosen, write_ok, disk_ok))

\* ------------------------------------------------- timers and deferred calls
PeriodicSaveTimestamp ==
    /\ save_pc = "idle"
    /\ Commit(periodic_save_timestamp(Self, disk_ok))

UpdateAllCardsDisplay ==
    /\ save_pc = "idle"
    /\ Commit(update_all_cards_display(Self))

\* after(300, self._restore_vlc_state) comes due.
RestoreVlcState ==
    /\ save_pc = "idle"
    /\ restore_pending > 0
    /\ Len(restore_frames) < MaxFrames
    /\ Commit(restore_vlc_state([Self EXCEPT !.restore_pending = @ - 1]))

\* The innermost waiting _restore_vlc_state goes on.  Events are dispatched by
\* its first window.update() and by its last: the rounds between them, which
\* change nothing but wait_attempts, are taken in one step.
RestorePoll ==
    /\ save_pc = "idle"
    /\ restore_frames # <<>>
    /\ Commit(restore_rounds(Self))

\* after(50, self._restart_playback) comes due.
RestartPlayback ==
    \E play_ok \in BOOLEAN :
        /\ save_pc = "idle"
        /\ restart_pending > 0
        /\ Len(restore_frames) < MaxFrames
        /\ Commit(restart_playback([Self EXCEPT !.restart_pending = @ - 1], play_ok))

\* after(50, lambda: self.render_pdf_page(self.pdf_current_page_index)) comes due.
RenderDeferred ==
    \E render_ok \in BOOLEAN :
        /\ save_pc = "idle"
        /\ render_pending > 0
        /\ Commit(render_pdf_page([Self EXCEPT !.render_pending = @ - 1],
                                  pdf_current_page_index, render_ok))

\* ------------------------------------------------------- the engine's steps
EngineStep(v) ==
    /\ save_pc = "idle"
    /\ Commit([Self EXCEPT !.vlc = v])

\* The input opened: playback runs, its length known at once or later.
EngineOpened ==
    \E length \in {0, MediaLength} :
        /\ vlc.state = "Opening"
        /\ EngineStep(vlc_opened(vlc, length))

EngineError ==
    /\ vlc.state = "Opening"
    /\ EngineStep([vlc EXCEPT !.state = "Error"])

EngineLengthKnown ==
    /\ vlc.state \in {"Playing", "Paused"}
    /\ vlc.length = 0
    /\ EngineStep([vlc EXCEPT !.length = MediaLength])

EngineAdvance ==
    /\ vlc.state = "Playing"
    /\ vlc.time < MediaLength
    /\ EngineStep([vlc EXCEPT !.time = IF @ + Tick > MediaLength
                                        THEN MediaLength ELSE @ + Tick])

EngineEnded ==
    /\ vlc.state = "Playing"
    /\ vlc.time = MediaLength
    /\ EngineStep([vlc EXCEPT !.state = "Ended"])

\* ------------------------------------------------------- the environment
\* The library directory stops, or starts again, taking writes (disk full,
\* permissions, the volume gone).
DiskChange ==
    /\ app = "running"
    /\ save_pc = "idle"
    /\ disk_ok' = ~disk_ok
    /\ UNCHANGED <<vlc, current_vlc_media_path, is_vlc_playing, pdf_doc, current_pdf_path,
                   pdf_current_page_index, pdf_page_count, pdf_zoom_level,
                   active_media_type, view, timestamps, files, restore_pending,
                   restart_pending, render_pending, restore_frames, save_pc, save_old,
                   save_data, save_result, library, dialog, app, notes_changed,
                   notes_file, settings_file, library_path, appearance_mode,
                   notes_font_size, cards, search_var, search_active, speed_var,
                   vlc_rate, resume_from>>

\* -------------------------------------------- save_timestamps step by step
\* The records a handler may have put into self.timestamps.
AVRecords ==
    {timestamp_data("a.mp4", t, MediaLength) : t \in {Tick, MediaLength}}
PdfRecords ==
    {[last_opened |-> "now", filename |-> FileName("b.pdf")]}
      \cup {[last_opened |-> "now", filename |-> FileName("b.pdf"),
             pdf_page |-> p, pdf_zoom |-> PDF_ZOOM_STEPS[z]] :
                p \in {PdfPages - 1}, z \in {3, 4}}
StoreMappings ==
    {EmptyDict}
      \cup {DictSet(EmptyDict, MediaKey("a.mp4"), r) : r \in AVRecords}
      \cup {DictSet(EmptyDict, MediaKey("b.pdf"), r) : r \in PdfRecords}
      \cup {DictSet(DictSet(EmptyDict, MediaKey("a.mp4"), r), MediaKey("b.pdf"), q) :
               r \in AVRecords, q \in PdfRecords}

SessionIdle ==
    UNCHANGED <<vlc, current_vlc_media_path, is_vlc_playing, pdf_doc, current_pdf_path,
                pdf_current_page_index, pdf_page_count, pdf_zoom_level,
                active_media_type, view, restore_pending, restart_pending,
                render_pending, restore_frames, disk_ok, library, dialog, app,
                notes_changed, notes_file, settings_file, library_path,
                appearance_mode, notes_font_size, cards, search_var, search_active,
                speed_var, vlc_rate, resume_from>>

\* A handler changed self.timestamps.
StoreUpdate ==
    \E m \in StoreMappings :
        /\ save_pc = "idle"
        /\ timestamps' = m
        /\ save_result' = "none"
        /\ UNCHANGED <<files, save_pc, save_old, save_data>>
        /\ SessionIdle

\* open(temp_file, 'w')
SaveOpen ==
    /\ save_pc = "idle"
    /\ save_pc' = "writing"
    /\ save_old' = files[store_file]
    /\ save_data' = timestamps
    /\ save_result' = "none"
    /\ files' = [files EXCEPT ![temp_file] =
                    [exists |-> TRUE, complete |-> FALSE, top |-> "object",
                     members |-> <<>>]]
    /\ UNCHANGED timestamps
    /\ SessionIdle

\* json.dump writes on; the with block closes the file after the last member.
SaveWrite ==
    /\ save_pc = "writing"
    /\ LET text == JsonDump(save_data)
           sofar == files[temp_file].members
       IN IF Len(sofar) < Len(text.members)
          THEN /\ files' = [files EXCEPT ![temp_file].members =
                               Append(sofar, text.members[Len(sofar) + 1])]
               /\ save_pc' = save_pc
          ELSE /\ files' = [files EXCEPT ![temp_file] = text]
               /\ save_pc' = "written"
    /\ UNCHANGED <<timestamps, save_old, save_data, save_result>>
    /\ SessionIdle

\* os.replace(temp_file, self.timestamps_file)
SaveReplace ==
    /\ save_pc = "written"
    /\ files' = os_replace(files, temp_file, store_file)
    /\ save_pc' = "idle"
    /\ save_result' = "ok"
    /\ UNCHANGED <<timestamps, save_old, save_data>>
    /\ SessionIdle

\* An OSError while writing or replacing: the except branch.
SaveError ==
    /\ save_pc \in {"writing", "written"}
    /\ files' = unlink(files, temp_file)
    /\ save_pc' = "idle"
    /\ save_result' = "failed"
    /\ UNCHANGED <<timestamps, save_old, save_data>>
    /\ SessionIdle

\* The process is killed, at any point, and the application started again.
Crash ==
    /\ timestamps' = load_timestamps(files[store_file])
    /\ save_pc' = "idle"
    /\ save_result' = "killed"
    /\ UNCHANGED <<files, save_old, save_data>>
    /\ SessionIdle

\* ----------------------------------------------------------- specifications
Engine ==
    \/ EngineOpened
    \/ EngineError
    \/ EngineLengthKnown
    \/ EngineAdvance
    \/ EngineEnded

\* Selections only, with the timers and the callbacks selections leave behind.
NextSelection ==
    \/ HandleMediaClick
    \/ PeriodicSaveTimestamp
    \/ UpdateAllCardsDisplay
    \/ RestoreVlcState
    \/ RestorePoll
    \/ RenderDeferred
    \/ Engine

\* Selections and the transport commands of the media controls.
Next ==
    \/ NextSelection
    \/ TogglePlayPause
    \/ RestartPlayback

\* A library of one video.
NextAV ==
    \/ HandleMediaClick
    \/ TogglePlayPause
    \/ PeriodicSaveTimestamp
    \/ UpdateAllCardsDisplay
    \/ RestoreVlcState
    \/ RestorePoll
    \/ RestartPlayback
    \/ Engine

\* A library of one video, on a disk that may refuse writes.
NextFault ==
    \/ NextAV
    \/ DiskChange

\* A library of one PDF, with the PDF controls.
NextPdf ==
    \/ HandleMediaClick
    \/ PdfNextPage
    \/ PdfPreviousPage
    \/ PdfZoomIn
    \/ PdfZoomOut
    \/ UpdateAllCardsDisplay
    \/ RenderDeferred

\* Selections of one video and their restores, whatever the engine does.
NextRestore ==
    \/ HandleMediaClick
    \/ RestoreVlcState
    \/ RestorePoll
    \/ Engine

\* A library of one video, with the seek controls.
NextSeek ==
    \/ HandleMediaClick
    \/ TogglePlayPause
    \/ RestartPlayback
    \/ RestoreVlcState
    \/ RestorePoll
    \/ Engine
    \/ SkipTime
    \/ MediaSliderRelease

\* Selections of a video and a PDF, the page and zoom buttons and the timers.
NextPdfTimers ==
    \/ HandleMediaClick
    \/ RestoreVlcState
    \/ RestorePoll
    \/ RenderDeferred
    \/ EngineOpened
    \/ PdfNextPage
    \/ PdfZoomIn
    \/ PeriodicSaveTimestamp
    \/ UpdateAllCardsDisplay

\* A library of one video, with the speed menu.
NextSpeed ==
    \/ HandleMediaClick
    \/ TogglePlayPause
    \/ RestartPlayback
    \/ RestoreVlcState
    \/ RestorePoll
    \/ Engine
    \/ ChangePlaybackSpeed

\* Selections of a video and a PDF, play and pause, the page and zoom buttons,
\* the timers and the close button.
NextLifecycle ==
    \/ NextPdfTimers
    \/ TogglePlayPause
    \/ OnClose

\* A library of one video, and the move to another library directory.
NextRootChange ==
    \/ HandleMediaClick
    \/ TogglePlayPause
    \/ RestartPlayback
    \/ RestoreVlcState
    \/ RestorePoll
    \/ Engine
    \/ PeriodicSaveTimestamp
    \/ ApplyLibraryPath

\* The search box over a library, with selections.
NextSearch ==
    \/ SearchWrite
    \/ HandleMediaClick
    \/ RenderDeferred
    \/ PdfNextPage

\* The settings dialog, on a library of one PDF.
NextSettings ==
    \/ ApplySettings
    \/ HandleMediaClick
    \/ RenderDeferred
    \/ PdfNextPage
    \/ OnClose

\* Selections, a page and a zoom command, the note and the close button.
NextShutdown ==
    \/ HandleMediaClick
    \/ RestoreVlcState
    \/ RestorePoll
    \/ RenderDeferred
    \/ Engine
    \/ TogglePlayPause
    \/ RestartPlayback
    \/ PeriodicSaveTimestamp
    \/ PdfNextPage
    \/ PdfZoomIn
    \/ OnNotesModified
    \/ OnClose

NextStore ==
    \/ StoreUpdate
    \/ SaveOpen
    \/ SaveWrite
    \/ SaveReplace
    \/ SaveError
    \/ Crash

\* A first launch on a library of one video and one PDF: no timestamps.json yet.
Init == Startup({"a.mp4", "b.pdf"}, AbsentFile)
InitPdf == Startup({"b.pdf"}, AbsentFile)
InitAV == Startup({"a.mp4"}, AbsentFile)

\* A launch without a working VLC, on a library with a video, a PDF and a PDF
\* without pages.
InitDegraded == StartupWith({"a.mp4", "b.pdf", "e.pdf"}, AbsentFile, NoPlayer)

\* A launch on a library whose timestamps.json holds a record of the video.
StoredRecords ==
    {[position |-> p, duration |-> MediaLength, last_played |-> "now",
      filename |-> FileName("a.mp4"), finished |-> FALSE] : p \in {Tick, MediaLength - Tick}}
InitLoaded ==
    \E r \in StoredRecords :
        Startup({"a.mp4"}, JsonDump(DictSet(EmptyDict, MediaKey("a.mp4"), r)))

\* A launch on whatever timestamps.json may hold: nothing, a store the
\* application wrote, a text cut short, or JSON that is no object.
StartupFiles ==
    {AbsentFile,
     JsonDump(DictSet(EmptyDict, MediaKey("b.pdf"),
                      [last_opened |-> "now", filename |-> FileName("b.pdf"),
                       pdf_page |-> PdfPages - 1, pdf_zoom |-> PDF_ZOOM_STEPS[4]])),
     [exists |-> TRUE, complete |-> FALSE, top |-> "object", members |-> <<>>]}
      \cup {[exists |-> TRUE, complete |-> TRUE, top |-> k, members |-> <<>>] :
               k \in {"array", "string", "number", "null"}}
InitStartup == \E store \in StartupFiles : Startup({"b.pdf"}, store)

\* A launch on whatever library_settings.ini may hold: nothing, a text that
\* configparser cannot read, or a [Settings] section with any of the option
\* texts of this model, options left out included.
StoredSettings ==
    {AbsentSettings, [AbsentSettings EXCEPT !.exists = TRUE]}
      \cup {SettingsFile(path, mode, size) :
               path \in PathTexts \cup {None}, mode \in ModeTexts \cup {None},
               size \in FontTexts \cup {None}}
InitSettings ==
    \E stored \in StoredSettings :
        StartupSettings({"b.pdf"}, AbsentFile, VlcIdle, stored, TRUE)

\* A launch without VLC on a library of several files, one of them with an
\* upper-case name.
InitSearch ==
    \E found \in {{"a.mp4", "b.pdf", "c.mp3", "D.MP4"}, {"b.pdf", "D.MP4", "e.pdf"}} :
        StartupWith(found, AbsentFile, NoPlayer)

\* A launch, on a library of one video or of one PDF, that may have failed to
\* write library_settings.ini.
InitShutdown ==
    \E found \in {{"a.mp4"}, {"b.pdf"}}, settings_ok \in BOOLEAN :
        StartupFull(found, AbsentFile, VlcIdle, settings_ok)

Spec == Init /\ [][Next]_vars
SpecSelection == Init /\ [][NextSelection]_vars
SpecLoaded == InitLoaded /\ [][NextAV]_vars
SpecPdf == InitPdf /\ [][NextPdf]_vars
SpecStore == Init /\ [][NextStore]_vars
SpecStartup == InitStartup /\ [][NextPdf]_vars
SpecFault == InitAV /\ [][NextFault]_vars
SpecDegraded == InitDegraded /\ [][NextPdf]_vars
SpecShutdown == InitShutdown /\ [][NextShutdown]_vars
SpecSettings == InitSettings /\ [][NextSettings]_vars
SpecSearch == InitSearch /\ [][NextSearch]_vars
SpecSeek == InitAV /\ [][NextSeek]_vars
SpecPdfTimers == Init /\ [][NextPdfTimers]_vars
SpecSpeed == InitAV /\ [][NextSpeed]_vars
SpecLifecycle == Init /\ [][NextLifecycle]_vars
SpecRootChange == InitAV /\ [][NextRootChange]_vars

\* The wait loop of _restore_vlc_state is running code: once window.update()
\* has returned it goes on with its next round.  window.update() returns when
\* the events at hand are dispatched, so a loop that waits beneath k - 1 others
\* goes on whenever the ones a handler started within it have ended: it cannot
\* be put off for ever by loops started anew.
SpecRestore ==
    /\ InitLoaded
    /\ [][NextRestore]_vars
    /\ \A k \in 1..MaxFrames : SF_vars(Len(restore_frames) = k /\ RestorePoll)

\* ------------------------------------------------------------- properties
CurrentKey == MediaKey(current_vlc_media_path)
StoreOnDisk == load_timestamps(files[store_file])

\* A _restore_vlc_state gets past its wait loop (or its guard) in this step.
RestoreRanStep ==
    \/ restore_pending' < restore_pending /\ Len(restore_frames') = Len(restore_frames)
    \/ Len(restore_frames') < Len(restore_frames)

\* C1: while the restore of a selection of R is still to come, no write
\* replaces the resumable position the store held for R when R was selected.
C1_NoWriteBeforeRestore ==
    resume_from # -1 =>
        /\ CurrentKey \in DOMAIN timestamps
        /\ timestamps[CurrentKey].position = resume_from

\* C11: load_timestamps returns a mapping whatever the store file holds, and
\* the application that called it at startup runs.
C11_LoadFailsSoft ==
    /\ load_timestamps_result(files[store_file]).type = "dict"
    /\ app # "aborted"

\* What a user sees of the session in s.
Session(s) ==
    [active_media_type |-> s.active_media_type,
     current_vlc_media_path |-> s.current_vlc_media_path,
     current_pdf_path |-> s.current_pdf_path,
     is_vlc_playing |-> s.is_vlc_playing,
     pdf_current_page_index |-> s.pdf_current_page_index,
     pdf_zoom_level |-> s.pdf_zoom_level,
     vlc |-> s.vlc, pdf_doc |-> s.pdf_doc, view |-> s.view]

\* C12: a save_timestamps that fails raises no dialog, leaves the session as
\* it is and the store file with its content; the periodic, the pause and the
\* switch flush end, with a failing save, in the session they end in with a
\* save that works, with no dialog of their own and the store file untouched.
C12_SaveFailureSwallowed ==
    /\ LET s == save_timestamps(Self, FALSE)
       IN /\ s.dialog = None
          /\ Session(s) = Session(Self)
          /\ s.files[store_file] = files[store_file]
    /\ LET s == periodic_save_timestamp(Self, FALSE)
       IN /\ s.dialog = None
          /\ Session(s) = Session(Self)
          /\ s.files[store_file] = files[store_file]
    /\ LET s == toggle_play_pause(Self, TRUE, FALSE)
       IN /\ s.dialog = None
          /\ Session(s) = Session(toggle_play_pause(Self, TRUE, TRUE))
          /\ s.files[store_file] = files[store_file]
    /\ LET s == stop_and_save_current_media(Self, FALSE)
       IN /\ s.dialog = None
          /\ Session(s) = Session(stop_and_save_current_media(Self, TRUE))
          /\ s.files[store_file] = files[store_file]

\* A pause whose flush failed: the record is in memory, not on disk, and the
\* session is paused with no dialog.
C12_Witness ==
    /\ ~disk_ok
    /\ vlc.state = "Paused"
    /\ ~is_vlc_playing
    /\ dialog = None
    /\ CurrentKey \in DOMAIN timestamps
    /\ CurrentKey \notin DOMAIN StoreOnDisk

\* The dialogs of a selection that failed.
LoadErrors ==
    {"VLC is not available. Cannot play media.", "Could not start playback.",
     "Could not play file.", "Could not open PDF file.",
     "The selected PDF file appears to be empty."}

\* C13: a selection that failed leaves the session idle: no active media type,
\* no current resource, nothing playing, no handle open.
C13_FailedSelectionEndsIdle ==
    dialog \in LoadErrors =>
        /\ active_media_type = None
        /\ current_vlc_media_path = None
        /\ current_pdf_path = None
        /\ ~is_vlc_playing
        /\ pdf_doc = None
        /\ ~VlcHandleOpen(vlc)

\* C14: a selection that fails while a video is playing or paused leaves, in
\* the store file, the record of that video at the position it had when the
\* selection was made (as a flush writes it), and the engine released.
C14_FailedSelectionKeepsProgress ==
    [][(/\ dialog' \in LoadErrors
        /\ disk_ok
        /\ current_vlc_media_path # None
        /\ vlc.state \in {"Playing", "Paused"}
        /\ vlc.time >= 0
        /\ vlc.length >= 0)
       => /\ CurrentKey \in DOMAIN load_timestamps(files'[store_file])
          /\ load_timestamps(files'[store_file])[CurrentKey]
                = timestamp_data(current_vlc_media_path, vlc.time, vlc.length)
          /\ ~VlcHandleOpen(vlc')]_vars

\* The PDF selected while the video played could not be opened: the video's
\* position is on disk, the engine stopped.
C14_Witness ==
    /\ dialog = "Could not open PDF file."
    /\ current_vlc_media_path # None
    /\ vlc.state = "Stopped"
    /\ CurrentKey \in DOMAIN StoreOnDisk
    /\ StoreOnDisk[CurrentKey].position > 0
    /\ StoreOnDisk = timestamps

\* C15: the step that pauses a playing engine clears is_vlc_playing and, in
\* that step, writes the engine's position into the record of the current
\* media and the store to disk.
C15_PauseFlushesAtOnce ==
    [][(vlc.state = "Playing" /\ vlc'.state = "Paused")
       => /\ ~is_vlc_playing'
          /\ CurrentKey \in DOMAIN timestamps'
          /\ timestamps'[CurrentKey]
                = timestamp_data(current_vlc_media_path, vlc.time, vlc.length)
          /\ disk_ok => load_timestamps(files'[store_file]) = timestamps']_vars

\* Paused before the trailing margin with no timer tick in between: the
\* engine's position is on disk.
C15_Witness ==
    /\ vlc.state = "Paused"
    /\ ~is_vlc_playing
    /\ vlc.time > 0
    /\ CurrentKey \in DOMAIN StoreOnDisk
    /\ StoreOnDisk[CurrentKey].position = vlc.time

\* C16: with the engine at the end of the media, the play command, its
\* deferred _restart_playback, the input opening and the restore that
\* _restart_playback began leave the same media playing from the beginning.
C16_PlayAfterEndRestarts ==
    (vlc.state = "Ended" /\ current_vlc_media_path # None /\ view \in {"video", "audio"})
    => LET s1 == toggle_play_pause(Self, TRUE, disk_ok)
           s2 == restart_playback([s1 EXCEPT !.restart_pending = @ - 1], TRUE)
           s3 == [s2 EXCEPT !.vlc = vlc_opened(@, MediaLength)]
           s4 == restore_poll(s3)
       IN /\ s1.restart_pending = restart_pending + 1
          /\ s2.vlc.media = current_vlc_media_path
          /\ s2.is_vlc_playing
          /\ Len(s2.restore_frames) = Len(restore_frames) + 1
          /\ s4.vlc.state = "Playing"
          /\ s4.vlc.time = 0

\* C17: while a PDF is open the page index lies between 0 and the page count
\* minus one; the next-page command on the last page and the previous-page
\* command on page 0 change nothing.
C17_PageIndexClamped ==
    pdf_doc # None =>
        /\ 0 <= pdf_current_page_index
        /\ pdf_current_page_index <= pdf_page_count - 1
        /\ \A render_ok \in BOOLEAN :
              /\ pdf_current_page_index = pdf_page_count - 1
                    => pdf_next_page(Self, render_ok) = Self
              /\ pdf_current_page_index = 0
                    => pdf_previous_page(Self, render_ok) = Self
              /\ pdf_next_page(Self, render_ok).pdf_current_page_index
                    \in {pdf_current_page_index, pdf_current_page_index + 1}
              /\ pdf_previous_page(Self, render_ok).pdf_current_page_index
                    \in {pdf_current_page_index, pdf_current_page_index - 1}

\* The last page of a PDF of several pages is shown.
C17_Witness ==
    /\ pdf_doc # None
    /\ pdf_current_page_index = pdf_page_count - 1
    /\ pdf_current_page_index > 0

\* C18: the zoom level is always an entry of PDF_ZOOM_STEPS; on an open PDF
\* zoom-in moves to the next entry up and zoom-out to the next entry down,
\* and each changes nothing at its end of the list.
C18_ZoomOnSteps ==
    /\ InZoomSteps(pdf_zoom_level)
    /\ pdf_doc # None =>
          \A render_ok \in BOOLEAN :
              /\ pdf_zoom_in(Self, render_ok).pdf_zoom_level =
                    IF ZoomIndex(pdf_zoom_level) < Len(PDF_ZOOM_STEPS)
                    THEN PDF_ZOOM_STEPS[ZoomIndex(pdf_zoom_level) + 1]
                    ELSE pdf_zoom_level
              /\ pdf_zoom_out(Self, render_ok).pdf_zoom_level =
                    IF ZoomIndex(pdf_zoom_level) > 1
                    THEN PDF_ZOOM_STEPS[ZoomIndex(pdf_zoom_level) - 1]
                    ELSE pdf_zoom_level
              /\ ZoomIndex(pdf_zoom_level) = Len(PDF_ZOOM_STEPS)
                    => pdf_zoom_in(Self, render_ok) = Self
              /\ ZoomIndex(pdf_zoom_level) = 1
                    => pdf_zoom_out(Self, render_ok) = Self

\* The PDF is shown at the highest zoom level.
C18_Witness ==
    /\ pdf_doc # None
    /\ pdf_zoom_level = PDF_ZOOM_STEPS[Len(PDF_ZOOM_STEPS)]

\* C19: closing with unsaved edits in the note asks save, discard or cancel;
\* on cancel, and on a save that fails or is given up, nothing of the shutdown
\* happens: the session, the engine handle, the playing flag, the store in
\* memory and on disk, the settings file and the window stay as they are.
\* On discard, and on a save that works, the window is destroyed.
C19_CancelAbortsShutdown ==
    (app = "running" /\ notes_changed) =>
        \A response \in {"yes", "no", "cancel"}, chosen \in BOOLEAN, write_ok \in BOOLEAN :
            LET s == on_close(Self, response, chosen, write_ok, disk_ok)
                saved == write_ok /\ (notes_file # None \/ chosen)
            IN IF response = "cancel" \/ (response = "yes" /\ ~saved)
               THEN /\ s.app = "running"
                    /\ Session(s) = Session(Self)
                    /\ s.timestamps = timestamps
                    /\ s.files = files
                    /\ s.settings_file = settings_file
                    /\ s.notes_changed
               ELSE /\ s.app = "destroyed"
                    /\ response = "yes" => ~s.notes_changed

\* A close was given up on a note that could not be saved, while media plays.
C19_Witness ==
    /\ dialog = "Could not save the notes file."
    /\ app = "running"
    /\ notes_changed
    /\ vlc.state = "Playing"
    /\ is_vlc_playing

\* C20: a close that destroys the window leaves, in that same step, the
\* position of the media that played or was paused (or the page and zoom of
\* the open PDF) in the record, no engine and no document handle, and the
\* store and the settings on disk as they are in memory.
C20_CloseFlushesAndPersists ==
    [][(app = "running" /\ app' = "destroyed")
       => /\ (/\ current_vlc_media_path # None
               /\ vlc.state \in {"Playing", "Paused"}
               /\ vlc.time >= 0 /\ vlc.length >= 0)
              => /\ CurrentKey \in DOMAIN timestamps'
                 /\ timestamps'[CurrentKey]
                       = timestamp_data(current_vlc_media_path, vlc.time, vlc.length)
          /\ (pdf_doc # None /\ current_pdf_path # None)
              => /\ MediaKey(current_pdf_path) \in DOMAIN timestamps'
                 /\ timestamps'[MediaKey(current_pdf_path)].pdf_page = pdf_current_page_index
                 /\ timestamps'[MediaKey(current_pdf_path)].pdf_zoom = pdf_zoom_level
          /\ vlc' = NoPlayer
          /\ pdf_doc' = None
          /\ ~is_vlc_playing'
          /\ active_media_type' = None
          /\ disk_ok => /\ load_timestamps(files'[store_file]) = timestamps'
                         /\ settings_file' = Config]_vars

\* The window was destroyed after a video had been played some way: its
\* position is in the store file, and the settings file exists.
C20_Witness ==
    /\ app = "destroyed"
    /\ vlc = NoPlayer
    /\ settings_file = Config
    /\ MediaKey("a.mp4") \in DOMAIN StoreOnDisk
    /\ StoreOnDisk[MediaKey("a.mp4")].position > 0

\* C21: the font size in memory is within 6..72 and the appearance mode is
\* Light, Dark or System; library_settings.ini holds the settings in memory
\* from startup on, a corrected value written back at once; a font size that
\* the settings dialog rejects leaves the font size as it was.
C21_SettingsValidAndWrittenBack ==
    /\ notes_font_size \in MinFontSize..MaxFontSize
    /\ appearance_mode \in AppearanceModes
    /\ settings_file = ConfigOf(Self)
    /\ \A new_size_str \in FontTexts :
          (IsInt(new_size_str) => IntOf(new_size_str) \notin MinFontSize..MaxFontSize)
          => apply_settings(Self, library_path, TRUE, FALSE, TRUE, appearance_mode,
                            new_size_str, disk_ok).notes_font_size = notes_font_size

\* C22: whatever is typed into the search box, the library view then shows
\* the files whose name contains the text (blanks around it removed),
\* letter case ignored, in the order of the full view; with an empty text
\* it shows the full view, every file of the library sorted by lowered name.
C22_FilterShowsMatches ==
    \A text \in SearchTexts :
        LET s == filter_library(Self, text)
            term == Strip(Lower(text))
            full == sorted_media_files(library)
        IN /\ \A i \in 1..Len(full) :
                 \A j \in 1..Len(full) :
                     i < j => TextLess(Lower(NameChars(full[i])), Lower(NameChars(full[j])))
           /\ {full[i] : i \in 1..Len(full)} = library
           /\ IF term = <<>>
              THEN s.cards = full
              ELSE /\ {s.cards[i] : i \in 1..Len(s.cards)}
                        = {r \in library : Contains(term, Lower(NameChars(r)))}
                   /\ \A i \in 1..Len(s.cards) :
                         \A j \in 1..Len(s.cards) :
                             i < j => TextLess(Lower(NameChars(s.cards[i])),
                                               Lower(NameChars(s.cards[j])))

\* A search for "mp" shows a.mp4, c.mp3 and D.MP4, and not b.pdf.
C22_Witness ==
    /\ search_var = <<"m", "p">>
    /\ cards = <<"a.mp4", "c.mp3", "D.MP4">>
    /\ "b.pdf" \in library

\* C23: while a _restore_vlc_state waits for the length (inside its loop),
\* no handler runs against the session: until that restore goes on, the
\* media, the active type, the playing flag, the store and the window stay
\* as they are, whatever the engine does meanwhile.
C23_NoHandlerDuringRestore ==
    [][(restore_frames # <<>> /\ Len(restore_frames') >= Len(restore_frames))
       => UNCHANGED <<current_vlc_media_path, current_pdf_path, active_media_type,
                      is_vlc_playing, timestamps, app>>]_vars

\* C24: a _restore_vlc_state that waits for the length has asked at most
\* max_attempts times; at max_attempts it ends its wait whatever the engine
\* reports, seeking to no stored position; and every wait comes to its end.
C24_RestoreWaitBounded ==
    /\ [](\A i \in 1..Len(restore_frames) :
            /\ restore_frames[i] <= max_attempts
            /\ (i = Len(restore_frames) /\ restore_frames[i] = max_attempts)
                  => LET s == restore_poll(Self)
                     IN /\ Len(s.restore_frames) = Len(restore_frames) - 1
                        /\ s.vlc \in {vlc, vlc_set_time(vlc, 0)})
    /\ (restore_frames # <<>>) ~> (restore_frames = <<>>)

\* A restore gave its wait up: the media plays, its length still unknown, a
\* stored position at hand, and no restore is waiting or to come.
C24_Witness ==
    /\ current_vlc_media_path # None
    /\ vlc.media = current_vlc_media_path
    /\ vlc.state = "Playing"
    /\ vlc.length <= 0
    /\ restore_frames = <<>>
    /\ restore_pending = 0
    /\ restart_pending = 0
    /\ CurrentKey \in DOMAIN timestamps
    /\ timestamps[CurrentKey].position > 0

\* C25: once the engine has played the current media to its end, the record
\* of that media in the store file has position 0 and finished true.
C25_EndedRecordFinished ==
    (vlc.state = "Ended" /\ current_vlc_media_path # None
        /\ vlc.media = current_vlc_media_path)
    => /\ CurrentKey \in DOMAIN StoreOnDisk
       /\ StoreOnDisk[CurrentKey].position = 0
       /\ StoreOnDisk[CurrentKey].finished

\* An audio-visual session whose engine plays or pauses media of known length.
SeekableSession ==
    /\ app = "running"
    /\ current_vlc_media_path # None
    /\ vlc.media = current_vlc_media_path
    /\ vlc.state \in {"Playing", "Paused"}
    /\ vlc.length > 0

\* C26: when the progress slider is let go in a session of known length,
\* playing or paused, on_media_slider_release writes the record of the current
\* media with the position sought to, and the store file holds it when the
\* handler returns.
C26_SeekReleaseFlushes ==
    SeekableSession =>
        \A value \in SliderValues :
            LET s == on_media_slider_release(Self, value, TRUE, TRUE)
                data == timestamp_data(current_vlc_media_path, s.vlc.time, s.vlc.length)
                stored == load_timestamps(s.files[store_file])
            IN /\ s.vlc.time = slider_target(value, vlc.length)
               /\ CurrentKey \in DOMAIN s.timestamps
               /\ s.timestamps[CurrentKey] = data
               /\ CurrentKey \in DOMAIN stored
               /\ stored[CurrentKey].position = data.position
               /\ stored[CurrentKey].finished = data.finished

\* C29: a seek in a session of known length d, by the skip buttons or by the
\* progress slider let go anywhere from 0 to 100, asks the engine for a time t
\* with 0 <= t < d.
C29_SeekBeforeEnd ==
    SeekableSession =>
        /\ \A ms_offset \in SkipOffsets :
              LET t == skip_time(Self, ms_offset, TRUE).vlc.time
              IN 0 <= t /\ t < vlc.length
        /\ \A value \in SliderValues :
              LET t == on_media_slider_release(Self, value, TRUE, TRUE).vlc.time
              IN 0 <= t /\ t < vlc.length

\* The record of the open PDF holds when it was last opened, the page shown
\* and the zoom level.
PdfRecordCurrent(d, s) ==
    LET key == MediaKey(s.current_pdf_path)
    IN /\ key \in DOMAIN d
       /\ {"last_opened", "pdf_page", "pdf_zoom"} \subseteq DOMAIN d[key]
       /\ d[key].pdf_page = s.pdf_current_page_index
       /\ d[key].pdf_zoom = s.pdf_zoom_level

\* C28: with a PDF open, once the two 5-second timers (update_all_cards_display
\* and periodic_save_timestamp) have run, the record of the PDF holds
\* last_opened and the page and zoom now shown, in memory and in the store
\* file.
C28_PdfWrittenOnTimer ==
    (app = "running" /\ save_pc = "idle" /\ pdf_doc # None /\ current_pdf_path # None)
    => \A s \in {periodic_save_timestamp(update_all_cards_display(Self), TRUE),
                 update_all_cards_display(periodic_save_timestamp(Self, TRUE))} :
          /\ PdfRecordCurrent(s.timestamps, s)
          /\ PdfRecordCurrent(load_timestamps(s.files[store_file]), s)

\* The keys whose record differs between the stores d and e.
ChangedKeys(d, e) ==
    {k \in DOMAIN d \cup DOMAIN e :
        k \notin DOMAIN d \/ k \notin DOMAIN e \/ d[k] # e[k]}

\* C27: a tick of periodic_save_timestamp writes at most the record of the
\* current media, and only in an audio-visual session marked playing; with
\* the session paused, with no session, or with a PDF open it leaves the store
\* in memory and the store file as they are.
C27_PeriodicFlushGated ==
    (app = "running" /\ save_pc = "idle") =>
        \A ok \in BOOLEAN :
            LET s == periodic_save_timestamp(Self, ok)
                written == s.timestamps # timestamps \/ s.files # files
            IN /\ written => /\ is_vlc_playing
                             /\ current_vlc_media_path # None
                             /\ active_media_type \in {"video", "audio"}
                             /\ ChangedKeys(timestamps, s.timestamps) \subseteq {CurrentKey}
               /\ (~is_vlc_playing \/ active_media_type \notin {"video", "audio"}
                      \/ pdf_doc # None)
                  => ~written

\* C30: a speed picked in the speed menu changes the engine's rate only while
\* the engine is Playing or Paused; when the change is not taken (the engine
\* in another state, or set_rate failing) the rate stays and speed_var shows
\* the rate it showed before.
C30_RejectedSpeedKeepsSelection ==
    (app = "running" /\ vlc # NoPlayer /\ current_vlc_media_path # None) =>
        \A value \in SpeedTexts, set_rate_ok \in BOOLEAN :
            LET s == speed_menu_select(Self, value, set_rate_ok)
                accepted == vlc.state \in {"Playing", "Paused"} /\ set_rate_ok
            IN /\ s.vlc_rate # vlc_rate => vlc.state \in {"Playing", "Paused"}
               /\ ~accepted => /\ s.vlc_rate = vlc_rate
                               /\ SpeedValue(s.speed_var) = SpeedValue(speed_var)

\* What the timers and the deferred calls do to the object s, whatever the
\* disk and the engine answer.
CallbackResults(s) ==
    {periodic_save_timestamp(s, ok) : ok \in BOOLEAN}
    \cup {update_playback_progress(s, FALSE), update_all_cards_display(s),
          restore_vlc_state(s)}
    \cup (IF s.restore_frames # <<>> THEN {restore_poll(s)} ELSE {})
    \cup {restart_playback(s, play_ok) : play_ok \in BOOLEAN}

\* The store, the store file and the session of s.
StoreAndSession(s) ==
    <<s.timestamps, s.files, s.vlc, s.current_vlc_media_path, s.is_vlc_playing,
      s.pdf_doc, s.current_pdf_path, s.pdf_current_page_index, s.pdf_zoom_level,
      s.active_media_type>>

\* C31: once on_close has destroyed the window, the engine is released and a
\* timer or deferred call that still ran (periodic_save_timestamp,
\* update_playback_progress, update_all_cards_display, _restore_vlc_state and
\* its wait loop, _restart_playback) would leave the store, the store file,
\* the session and the engine as they are.
C31_CallbacksAfterCloseIdle ==
    app = "destroyed" =>
        /\ vlc = NoPlayer
        /\ pdf_doc = None
        /\ \A s \in CallbackResults(Self) : StoreAndSession(s) = StoreAndSession(Self)

\* The window was destroyed with a _restore_vlc_state still to come, the
\* media of the session on record.
C31_Witness ==
    /\ app = "destroyed"
    /\ restore_pending > 0
    /\ current_vlc_media_path # None
    /\ CurrentKey \in DOMAIN timestamps

\* C32: with the disk taking writes, whenever a handler or a timer has
\* returned the store file holds the store in memory.
C32_StoreFlushedOnEveryWrite ==
    (app = "running" /\ save_pc = "idle" /\ disk_ok) => StoreOnDisk = timestamps

\* C33: a selection that opens a file of the library which had no record
\* leaves a record of it in the store, and a selection whose open fails leaves
\* no record where none was.
C33_RecordCreatedOnOpen ==
    (app = "running" /\ save_pc = "idle") =>
        \A file_path \in library, outcome \in {"ok", "play_failed", "exception"} :
            LET s == handle_media_click(Self, file_path, outcome, TRUE)
                opened == s.view \in {"video", "audio", "pdf"}
            IN MediaKey(file_path) \notin DOMAIN timestamps
               => (opened <=> MediaKey(file_path) \in DOMAIN s.timestamps)

\* The keys of the media and of the PDF of the session.
SessionKeys ==
    (IF current_vlc_media_path # None THEN {MediaKey(current_vlc_media_path)} ELSE {})
    \cup (IF current_pdf_path # None THEN {MediaKey(current_pdf_path)} ELSE {})

\* C34: through selections, play and pause, page and zoom commands, timer
\* ticks and the close of the window no key leaves the store in memory, and a
\* step changes no record but those of the session's media and PDF, before
\* or after it.
C34_RecordsNeverDeleted ==
    [][/\ DOMAIN timestamps \subseteq DOMAIN timestamps'
       /\ ChangedKeys(timestamps, timestamps') \subseteq SessionKeys \cup SessionKeys']_vars

\* The window was destroyed with the records of both the video and the PDF
\* in the store, the video's with a position.
C34_Witness ==
    /\ app = "destroyed"
    /\ {MediaKey("a.mp4"), MediaKey("b.pdf")} \subseteq DOMAIN timestamps
    /\ "position" \in DOMAIN timestamps[MediaKey("a.mp4")]
    /\ "pdf_page" \in DOMAIN timestamps[MediaKey("b.pdf")]

\* C35: when a selection, a failed selection, a change of the library path
\* or a shutdown step has ended, the view manage_views shows is the one of
\* active_media_type: none for None, the video or audio view with the media
\* controls for "video" and "audio", the PDF view with its controls for "pdf".
C35_ViewOfSession ==
    save_pc = "idle" => view = active_media_type

\* What the repeating timers do to the object s.
TimerResults(s) ==
    {periodic_save_timestamp(s, ok) : ok \in BOOLEAN}
    \cup {update_playback_progress(s, FALSE), update_all_cards_display(s)}

\* C36: a tick of periodic_save_timestamp, update_playback_progress or
\* update_all_cards_display leaves active_media_type, the paths of the current
\* media and PDF, is_vlc_playing, the PDF page index and the zoom level as
\* they are.
C36_TimersKeepSession ==
    (app = "running" /\ save_pc = "idle") =>
        \A s \in TimerResults(Self) :
            /\ s.active_media_type = active_media_type
            /\ s.current_vlc_media_path = current_vlc_media_path
            /\ s.current_pdf_path = current_pdf_path
            /\ s.is_vlc_playing = is_vlc_playing
            /\ s.pdf_current_page_index = pdf_current_page_index
            /\ s.pdf_zoom_level = pdf_zoom_level
            /\ s.pdf_doc = pdf_doc
            /\ s.view = view

\* update_all_cards_display has written the record of the video that plays
\* into the store in memory, which the store file does not hold yet.
C36_Witness ==
    /\ app = "running"
    /\ is_vlc_playing
    /\ vlc.state = "Playing"
    /\ active_media_type = "video"
    /\ CurrentKey \in DOMAIN timestamps
    /\ CurrentKey \notin DOMAIN StoreOnDisk

\* C37: a page or zoom command of the PDF controls whose render_pdf_page
\* fails leaves the page index and the zoom level as they were.
C37_FailedRenderKeepsPageAndZoom ==
    (app = "running" /\ save_pc = "idle" /\ pdf_doc # None) =>
        \A s \in {pdf_next_page(Self, FALSE), pdf_previous_page(Self, FALSE),
                  pdf_zoom_in(Self, FALSE), pdf_zoom_out(Self, FALSE)} :
            /\ s.pdf_current_page_index = pdf_current_page_index
            /\ s.pdf_zoom_level = pdf_zoom_level

\* The keys of the files of the library.
LibraryKeys == {MediaKey(file_path) : file_path \in library}

\* C38: a change of the library path flushes the position of the media that
\* plays or is paused into the store file of the old library before the store
\* of the new one is loaded, and ends with no session; and the store of the
\* new library never gets a record of a file of the old one.
C38_RootChangeLeavesOldLibraryBehind ==
    /\ (app = "running" /\ save_pc = "idle" /\ library_path = DEFAULT_LIBRARY_DIR_NAME)
       => \A new_path_str \in ExistingDirs \ {DEFAULT_LIBRARY_DIR_NAME} :
             LET old == stop_and_save_current_media(Self, TRUE)
                 s == apply_settings(Self, new_path_str, TRUE, FALSE, TRUE,
                                     appearance_mode, StrOf(notes_font_size), TRUE)
             IN /\ (/\ current_vlc_media_path # None
                    /\ vlc.state \in {"Playing", "Paused"}
                    /\ vlc.time >= 0 /\ vlc.length >= 0)
                   => /\ CurrentKey \in DOMAIN load_timestamps(old.files[store_file])
                      /\ load_timestamps(old.files[store_file])[CurrentKey].position
                            = timestamp_data(current_vlc_media_path, vlc.time,
                                             vlc.length).position
                /\ s.timestamps = load_timestamps(s.files[store_file])
                /\ s.active_media_type = None
                /\ ~s.is_vlc_playing
                /\ s.pdf_doc = None
                /\ s.view = None
    /\ DOMAIN timestamps \subseteq LibraryKeys

\* C2: under selections, the media engine never holds an input while a PDF
\* document is open, and the release phase of a selection
\* (stop_and_save_current_media) leaves no handle open for the load phase.
C2_OneHandleAtATime ==
    /\ ~(VlcHandleOpen(vlc) /\ pdf_doc # None)
    /\ \A ok \in BOOLEAN : OpenHandles(stop_and_save_current_media(Self, ok)) = 0

\* A PDF was opened by a selection that stopped the video playing before it.
C2_Witness ==
    /\ pdf_doc # None
    /\ current_vlc_media_path # None
    /\ vlc.media # None
    /\ vlc.state = "Stopped"
    /\ ~is_vlc_playing

\* C3: the media engine is never marked playing while a PDF document is open
\* or while active_media_type is None or "pdf".
C3_OneActiveSession ==
    is_vlc_playing => (pdf_doc = None /\ active_media_type \in {"video", "audio"})

\* C4: when the restore of a selection of R runs with the engine playing (or
\* paused) and reporting a positive duration, playback is at the position the
\* store held for R when R was selected (a position before the trailing margin).
C4_ResumeAtStoredPosition ==
    [][(/\ resume_from # -1
        /\ RestoreRanStep
        /\ vlc.state \in {"Playing", "Paused"}
        /\ vlc.length > 0
        /\ resume_from < vlc.length - TRAILING_MARGIN)
       => vlc'.time = resume_from]_vars

\* C5: a restore that finds a stored position within the trailing margin of
\* the stored duration does not seek to that position.
C5_TrailingMarginStartsAtZero ==
    [][(/\ RestoreRanStep
        /\ vlc.state \in {"Playing", "Paused"}
        /\ CurrentKey \in DOMAIN timestamps
        /\ timestamps[CurrentKey].duration > 0
        /\ timestamps[CurrentKey].position > 0
        /\ timestamps[CurrentKey].position < timestamps[CurrentKey].duration
        /\ timestamps[CurrentKey].position >=
              timestamps[CurrentKey].duration - TRAILING_MARGIN
        /\ vlc.time # timestamps[CurrentKey].position)
       => vlc'.time # timestamps[CurrentKey].position]_vars

\* C6: a selection that opens a PDF whose record holds a page and a zoom level
\* leaves the session on that page (clamped to the document) at that zoom.
C6_PdfSessionRestored ==
    [][(/\ render_pending' > render_pending
        /\ pdf_doc' # None
        /\ MediaKey(current_pdf_path') \in DOMAIN timestamps'
        /\ "pdf_page" \in DOMAIN timestamps'[MediaKey(current_pdf_path')])
       => LET rec == timestamps'[MediaKey(current_pdf_path')]
          IN /\ pdf_current_page_index' =
                   Max({0, Min({rec.pdf_page, pdf_page_count' - 1})})
             /\ pdf_zoom_level' = rec.pdf_zoom]_vars

\* C7: a flush (save_current_vlc_timestamp) of an engine position within the
\* trailing margin of a positive duration stores position 0 and finished true;
\* of a position before the margin, the engine position and finished false;
\* and a save that succeeds puts that record on disk.
C7_FlushNormalizes ==
    \A ok \in BOOLEAN :
        LET s == save_current_vlc_timestamp(Self, ok)
            flushes == /\ current_vlc_media_path # None
                       /\ vlc.media # None
                       /\ vlc.state \in {"Playing", "Paused"}
                       /\ vlc.length >= 0
                       /\ vlc.time >= 0
        IN flushes =>
             /\ CurrentKey \in DOMAIN s.timestamps
             /\ (vlc.length > 0 /\ vlc.time >= vlc.length - TRAILING_MARGIN)
                   => /\ s.timestamps[CurrentKey].position = 0
                      /\ s.timestamps[CurrentKey].finished
             /\ vlc.time < vlc.length - TRAILING_MARGIN
                   => /\ s.timestamps[CurrentKey].position = vlc.time
                      /\ ~s.timestamps[CurrentKey].finished
             /\ ok => /\ CurrentKey \in DOMAIN load_timestamps(s.files[store_file])
                      /\ load_timestamps(s.files[store_file])[CurrentKey]
                            = s.timestamps[CurrentKey]

\* A pause within the trailing margin has flushed: the record on disk is
\* finished, at position 0.
C7_Witness ==
    /\ current_vlc_media_path # None
    /\ vlc.state = "Paused"
    /\ vlc.length > 0
    /\ vlc.time >= vlc.length - TRAILING_MARGIN
    /\ CurrentKey \in DOMAIN StoreOnDisk
    /\ StoreOnDisk[CurrentKey].finished
    /\ StoreOnDisk[CurrentKey].position = 0

AVRecordsNormalized(d) ==
    \A k \in DOMAIN d :
        "position" \in DOMAIN d[k] =>
            /\ d[k].duration > 0 => d[k].position < d[k].duration
            /\ d[k].finished => d[k].position = 0

\* C8: from an empty store, every audio-visual record, in memory and on disk,
\* with a positive duration has a position below it, and every finished record
\* has position 0.
C8_RecordsNormalized ==
    /\ AVRecordsNormalized(timestamps)
    /\ AVRecordsNormalized(StoreOnDisk)

\* update_all_cards_display has put a finished record in memory that the disk
\* does not hold yet, next to an unfinished record with a known duration.
C8_Witness ==
    /\ CurrentKey \in DOMAIN timestamps
    /\ timestamps[CurrentKey].finished
    /\ timestamps[CurrentKey].duration > 0
    /\ CurrentKey \in DOMAIN StoreOnDisk
    /\ ~StoreOnDisk[CurrentKey].finished
    /\ StoreOnDisk[CurrentKey].duration > 0
    /\ StoreOnDisk[CurrentKey].position > 0

\* C9: whatever saves, failures and kills happened, the store file is whole,
\* and holds what it held when the latest save began or what that save was
\* given.
C9_StoreFileAtomic ==
    /\ files[store_file].exists => files[store_file].complete
    /\ \/ files[store_file] = save_old
       \/ files[store_file] = JsonDump(save_data)

\* The process was killed between the temporary file's first write and the
\* rename: the partial temporary file is left, the store file has its old
\* content.
C9_Witness ==
    /\ save_result = "killed"
    /\ files[temp_file].exists
    /\ ~files[temp_file].complete
    /\ files[temp_file].members # <<>>
    /\ files[store_file].exists
    /\ files[store_file] # JsonDump(save_data)

====
